---- MODULE Spec2Model ----
(***************************************************************************)
(* Model Memory Protocol: the MemoryProtocol dispatcher                    *)
(* (src/src/core/memoryProtocol.ts) over InMemoryBackend stores            *)
(* (src/src/transport/websocketTransport.ts, class InMemoryBackend),       *)
(* and the WebSocketTransport of the same file with its sockets and        *)
(* reconnection timers.                                                    *)
(*                                                                         *)
(* Conventions.  Strings are sequences of character codes, so that         *)
(* toLowerCase, includes and split are computed as the code computes       *)
(* them.  Scores, thresholds, importance and confidence are in tenths      *)
(* (0.7 is 7).  An optional field is a field that may be missing from the  *)
(* record's DOMAIN.  uuidv4() is a fresh number.  A metadata object is a   *)
(* cell of `heap`, because the shallow copies `{ ...event }` made by the   *)
(* backends share it.  A Map iterates in insertion order: storageBackends  *)
(* is a sequence, and the events of a backend are iterated by ascending    *)
(* id, the order in which store inserted them.                             *)
(***************************************************************************)
EXTENDS Integers, Sequences, FiniteSets, TLC

\* ------------------------------------------------------------ bounds
\* backend objects the embedding program constructs (specification Spec)
NumBackends == 2
\* session ids uuidv4() hands out in createSession (specification SpecSessions)
MaxSessions == 2
\* event ids uuidv4() hands out in store
MaxRecords == 1

\* ------------------------------------------------------------ constants
DEFAULT_SIMILARITY_THRESHOLD == 7
DEFAULT_SEARCH_LIMIT == 10
DEFAULT_TTL == 86400
\* searchEvents: the score added by a text, keyword and tag match; the
\* fallback threshold
TextScore == 8
KeywordScore == 6
TagScore == 7
FallbackThreshold == 5
\* store: the defaults of a new record's metadata
DefaultConfidence == 10
DefaultImportance == 5
\* extractKeywords: words longer than this are keywords, at most so many
KeywordMinLen == 3
MaxKeywords == 10
\* error codes
CodeBadRequest == 400
CodeNotFound == 404
CodeStorage == 500
CodeTransport == 502

MemoryTypes == {"episodic", "semantic", "procedural", "working", "archival"}

StorageTiers ==
    {"main_context", "external_context", "vector_store", "graph_store", "temporal_store"}

\* The `type` of backend object b: the reference backend serves main_context,
\* the further backend objects are stores of the other tiers behind the same
\* StorageBackend contract.
TierOrder ==
    <<"main_context", "vector_store", "graph_store", "external_context", "temporal_store">>

BackendTier(b) == TierOrder[((b - 1) % Len(TierOrder)) + 1]

\* ------------------------------------------------------------ strings
\* "The user prefers TypeScript over JavaScript"
TextTypeScript ==
    <<84, 104, 101, 32, 117, 115, 101, 114, 32, 112, 114, 101, 102, 101, 114, 115, 32,
      84, 121, 112, 101, 83, 99, 114, 105, 112, 116, 32, 111, 118, 101, 114, 32,
      74, 97, 118, 97, 83, 99, 114, 105, 112, 116>>
\* "User likes tea"
TextTea == <<85, 115, 101, 114, 32, 108, 105, 107, 101, 115, 32, 116, 101, 97>>
\* "preference"
TagPreference == <<112, 114, 101, 102, 101, 114, 101, 110, 99, 101>>
\* "programming"
TagProgramming == <<112, 114, 111, 103, 114, 97, 109, 109, 105, 110, 103>>
\* "tea"
TagTea == <<116, 101, 97>>
\* "programming preferences"
QueryProgrammingPreferences ==
    <<112, 114, 111, 103, 114, 97, 109, 109, 105, 110, 103, 32,
      112, 114, 101, 102, 101, 114, 101, 110, 99, 101, 115>>
\* "programming"
QueryProgramming == <<112, 114, 111, 103, 114, 97, 109, 109, 105, 110, 103>>

ToLowerChar(c) == IF c >= 65 /\ c <= 90 THEN c + 32 ELSE c

ToLowerCase(s) == [i \in 1..Len(s) |-> ToLowerChar(s[i])]

\* String.prototype.includes
Includes(s, sub) ==
    \E i \in 0..(Len(s) - Len(sub)) : SubSeq(s, i + 1, i + Len(sub)) = sub

IsSpace(c) == c \in {9, 10, 11, 12, 13, 32}

\* s.split(/\s+/) without the empty strings it yields at the ends
RECURSIVE SplitWords(_, _, _)
SplitWords(s, i, cur) ==
    LET done == IF cur = <<>> THEN <<>> ELSE <<cur>>
    IN  IF i > Len(s) THEN done
        ELSE IF IsSpace(s[i]) THEN done \o SplitWords(s, i + 1, <<>>)
        ELSE SplitWords(s, i + 1, Append(cur, s[i]))

Slice(seq, from, to) ==
    LET lo == IF from > Len(seq) THEN Len(seq) ELSE from
        hi == IF to > Len(seq) THEN Len(seq) ELSE to
    IN  SubSeq(seq, lo + 1, hi)

IsLongWord(w) == Len(w) > KeywordMinLen

extractKeywords(content) ==
    Slice(SelectSeq(SplitWords(ToLowerCase(content), 1, <<>>), IsLongWord), 0, MaxKeywords)

\* ------------------------------------------------------------ errors
MemoryProtocolError(message, code) ==
    [name |-> "MemoryProtocolError", message |-> message, code |-> code]

StorageError(message) ==
    [name |-> "StorageError", message |-> message, code |-> CodeStorage]

NoError == [name |-> "none", message |-> "none", code |-> 0]

TransportError(message) ==
    [name |-> "TransportError", message |-> message, code |-> CodeTransport]

\* ------------------------------------------------------------ WebSocketTransport
\* `options.maxReconnectAttempts || 5`
DefaultReconnectAttempts == 5

CloseNormal == 1000
CloseAbnormal == 1006

\* `new WebSocketTransport(url, options)`.  sockets are the
\* WebSocket objects connect() has created, timers the number of setTimeout
\* callbacks of attemptReconnection not yet run, sent what ws.send put on each
\* socket.  History: messages counts the send calls, started the reconnection
\* attempts that created a socket since the last open, idle whether
\* disconnect() has returned with no connect() call since, happened the last
\* step.
NewTransport(options) ==
    [connected |-> FALSE, reconnectAttempts |-> 0,
     maxReconnectAttempts |->
         IF "maxReconnectAttempts" \in DOMAIN options /\ options.maxReconnectAttempts # 0
         THEN options.maxReconnectAttempts ELSE DefaultReconnectAttempts,
     messageQueue |-> <<>>, ws |-> 0, sockets |-> <<>>, timers |-> 0, sent |-> <<>>,
     messages |-> 0, started |-> 0, idle |-> FALSE, happened |-> "new"]

\* ------------------------------------------------------------ state
VARIABLES
    initialized,         \* MemoryProtocol.initialized
    sessions,            \* MemoryProtocol.sessions: sessionId -> MemoryContext
    nextSession,         \* the next session id uuidv4() returns
    storageBackends,     \* MemoryProtocol.storageBackends, in insertion order
    backendInitialized,  \* InMemoryBackend.initialized of each backend object
    events,              \* InMemoryBackend.events of each backend object
    heap,                \* the metadata objects the stored events refer to
    nextId,              \* the next event id uuidv4() returns
    clock,               \* the time new Date() returns
    deletedFrom,         \* history: the ids backend.delete removed from each backend
    last,                \* the last call: its arguments, outcome and notifications
    pool,                \* what the embedding program constructs: how many backends, ids, sockets
    pending,             \* the update and delete calls begun through suspending backends
    transport            \* a WebSocketTransport, its sockets and its timers

vars ==
    <<initialized, sessions, nextSession, storageBackends, backendInitialized,
      events, heap, nextId, clock, deletedFrom, last, pool, pending, transport>>

Backends == 1..pool.backends
SessionIds == 1..pool.sessions
EventIds == 1..pool.records

\* the stores of the backends, threaded through the loops of the dispatcher
Stores == [events |-> events, heap |-> heap, deletedFrom |-> deletedFrom]

NoResult == [memories |-> <<>>, totalCount |-> 0]

NoCall ==
    [op |-> "none", sessionId |-> 0, memoryId |-> 0, backend |-> 0, outcome |-> "ok",
     error |-> NoError, returned |-> 0, emitted |-> <<>>, query |-> <<>>,
     result |-> NoResult, calls |-> <<>>]

Emit(name, arg) == [name |-> name, arg |-> arg]

Call(op, sessionId, memoryId) ==
    [NoCall EXCEPT !.op = op, !.sessionId = sessionId, !.memoryId = memoryId]

\* a throw that comes after the notification of the call has gone out
ThrowNotified(call, error) ==
    [call EXCEPT !.outcome = "error", !.error = error,
                 !.emitted = <<Emit(call.op, call.memoryId)>>]

Throw(call, error) == [call EXCEPT !.outcome = "error", !.error = error]

\* the metadata objects some stored event still refers to
LiveRefs(ev) == UNION {{ev[b][id].metadata : id \in DOMAIN ev[b]} : b \in Backends}

Collect(st) ==
    [st EXCEPT !.heap = [r \in LiveRefs(st.events) |-> st.heap[r]]]

\* a fresh metadata object: the one store builds is named after the event id,
\* the one an update carries takes the first free name after the event ids
NewRef(h) ==
    CHOOSE r \in (pool.records + 1)..(pool.records + Cardinality(DOMAIN h) + 1) :
        r \notin DOMAIN h

\* the state after `new MemoryProtocol(config)` and `new InMemoryBackend()`
Constructed(p) ==
    /\ pool = p
    /\ initialized = FALSE
    /\ sessions = <<>>
    /\ nextSession = 1
    /\ storageBackends = <<>>
    /\ backendInitialized = [b \in 1..p.backends |-> FALSE]
    /\ events = [b \in 1..p.backends |-> <<>>]
    /\ heap = <<>>
    /\ nextId = 1
    /\ clock = 0
    /\ deletedFrom = [b \in 1..p.backends |-> {}]
    /\ last = NoCall
    /\ pending = <<>>
    /\ transport = NewTransport(IF "options" \in DOMAIN p THEN p.options ELSE <<>>)

\* NumBackends backend objects, one caller session
Init == Constructed([backends |-> NumBackends, sessions |-> 1, records |-> MaxRecords])

\* one backend object, MaxSessions caller sessions
InitSessions == Constructed([backends |-> 1, sessions |-> MaxSessions, records |-> MaxRecords])

Commit(st) ==
    LET c == Collect(st)
    IN  /\ events' = c.events
        /\ heap' = c.heap
        /\ deletedFrom' = c.deletedFrom

\* ------------------------------------------------------------ InMemoryBackend
\* The result of a backend call on the stores st: the stores after it and the
\* error it threw, if any.
Done(st) == [ok |-> TRUE, error |-> NoError, st |-> st]

Failed(st, error) == [ok |-> FALSE, error |-> error, st |-> st]

\* a store that stamps the access time and does not count the access
BackendStoreUncounted(st, b, event) ==
    IF ~backendInitialized[b]
    THEN Failed(st, StorageError("Backend not initialized"))
    ELSE Done([st EXCEPT
                 !.events[b] = (event.id :> event) @@ @,
                 !.deletedFrom[b] = @ \ {event.id},
                 !.heap[event.metadata] = [@ EXCEPT !.lastAccessed = clock]])

BackendStore(st, b, event) ==
    IF ~backendInitialized[b]
    THEN Failed(st, StorageError("Backend not initialized"))
    ELSE Done([st EXCEPT
                 !.events[b] = (event.id :> event) @@ @,
                 !.deletedFrom[b] = @ \ {event.id},
                 !.heap[event.metadata] =
                     [@ EXCEPT !.lastAccessed = clock, !.accessCount = @ + 1]])

\* an update that creates the event it does not find
BackendUpdateInserts(st, b, id, updates) ==
    IF ~backendInitialized[b]
    THEN Failed(st, StorageError("Backend not initialized"))
    ELSE LET present == id \in DOMAIN st.events[b]
             ref == NewRef(st.heap)
             found == IF present THEN st.events[b][id] ELSE [id |-> id, metadata |-> ref]
             cells == IF present THEN st.heap ELSE (ref :> <<>>) @@ st.heap
             updatedEvent == updates @@ found
         IN  Done([st EXCEPT
                     !.events[b] = (id :> updatedEvent) @@ @,
                     !.deletedFrom[b] = @ \ {id},
                     !.heap = [cells EXCEPT
                                  ![updatedEvent.metadata] = ("updated" :> clock) @@ @]])

\* `{ ...event, ...updates }`, then `updatedEvent.metadata.updated = new Date()`
\* on the metadata object the merged event refers to
BackendUpdate(st, b, id, updates) ==
    IF ~backendInitialized[b]
    THEN Failed(st, StorageError("Backend not initialized"))
    ELSE IF id \notin DOMAIN st.events[b]
    THEN Failed(st, StorageError("Event not found"))
    ELSE LET updatedEvent == updates @@ st.events[b][id]
         IN  Done([st EXCEPT
                     !.events[b][id] = updatedEvent,
                     !.heap[updatedEvent.metadata] = ("updated" :> clock) @@ @])

\* a delete that reports success and leaves the event in the map
BackendDeleteKeepsEvent(st, b, id) ==
    IF ~backendInitialized[b]
    THEN Failed(st, StorageError("Backend not initialized"))
    ELSE IF id \notin DOMAIN st.events[b]
    THEN Failed(st, StorageError("Event not found"))
    ELSE Done([st EXCEPT !.deletedFrom[b] = @ \cup {id}])

BackendDelete(st, b, id) ==
    IF ~backendInitialized[b]
    THEN Failed(st, StorageError("Backend not initialized"))
    ELSE IF id \notin DOMAIN st.events[b]
    THEN Failed(st, StorageError("Event not found"))
    ELSE Done([st EXCEPT
                 !.events[b] = [i \in (DOMAIN @) \ {id} |-> @[i]],
                 !.deletedFrom[b] = @ \cup {id}])

\* a close that releases nothing
BackendCloseKeepsEvents(st, b) == st

BackendClose(st, b) == [st EXCEPT !.events[b] = <<>>]

\* ------------------------------------------------------------ retrieval engine
NaN == 0 - 1

\* `x || fallback` on an optional number
OrDefault(rec, field, fallback) ==
    IF field \in DOMAIN rec /\ rec[field] # 0 THEN rec[field] ELSE fallback

\* the ids of a backend's events in Map order
RECURSIVE SeqOfIds(_)
SeqOfIds(ids) ==
    IF ids = {} THEN <<>>
    ELSE LET m == CHOOSE i \in ids : \A j \in ids : i <= j
         IN  <<m>> \o SeqOfIds(ids \ {m})

CountMatches(strings, queryLower) ==
    Cardinality({i \in 1..Len(strings) : Includes(ToLowerCase(strings[i]), queryLower)})

\* a score capped at 1
ScoreOfCapped(event, queryLower) ==
    LET score ==
            (IF Includes(ToLowerCase(event.content.text), queryLower) THEN TextScore ELSE 0)
            + KeywordScore * CountMatches(event.content.keywords, queryLower)
            + TagScore * CountMatches(event.content.tags, queryLower)
    IN  IF score > DefaultConfidence THEN DefaultConfidence ELSE score

ScoreOf(event, queryLower) ==
    (IF Includes(ToLowerCase(event.content.text), queryLower) THEN TextScore ELSE 0)
    + (IF "keywords" \in DOMAIN event.content
       THEN KeywordScore * CountMatches(event.content.keywords, queryLower) ELSE 0)
    + (IF "tags" \in DOMAIN event.content
       THEN TagScore * CountMatches(event.content.tags, queryLower) ELSE 0)

RECURSIVE ScoreEvents(_, _, _)
ScoreEvents(evs, ids, query) ==
    IF ids = <<>> THEN <<>>
    ELSE LET event == evs[Head(ids)]
             score == ScoreOf(event, ToLowerCase(query.query))
             rest == ScoreEvents(evs, Tail(ids), query)
         IN  IF score >= OrDefault(query, "threshold", FallbackThreshold)
             THEN <<("_score" :> score) @@ event>> \o rest
             ELSE rest

searchEvents(st, b, query) ==
    ScoreEvents(st.events[b], SeqOfIds(DOMAIN st.events[b]), query)

InArray(array, x) == \E i \in 1..Len(array) : array[i] = x

\* filters whose time range excludes its end
PassesFiltersBeforeEnd(st, event, query) ==
    LET meta == st.heap[event.metadata]
    IN  /\ ("memoryTypes" \in DOMAIN query /\ Len(query.memoryTypes) > 0)
              => InArray(query.memoryTypes, event.memoryType)
        /\ ("storageTiers" \in DOMAIN query /\ Len(query.storageTiers) > 0)
              => /\ "storageTier" \in DOMAIN meta
                 /\ InArray(query.storageTiers, meta.storageTier)
        /\ "timeRange" \in DOMAIN query
              => /\ "start" \in DOMAIN query.timeRange
                      => ~(event.timestamp < query.timeRange.start)
                 /\ "end" \in DOMAIN query.timeRange
                      => event.timestamp < query.timeRange.end
        /\ "filters" \in DOMAIN query
              => \A key \in DOMAIN query.filters :
                     /\ key \in DOMAIN meta
                     /\ meta[key] = query.filters[key]

PassesFilters(st, event, query) ==
    LET meta == st.heap[event.metadata]
    IN  /\ ("memoryTypes" \in DOMAIN query /\ Len(query.memoryTypes) > 0)
              => InArray(query.memoryTypes, event.memoryType)
        /\ ("storageTiers" \in DOMAIN query /\ Len(query.storageTiers) > 0)
              => /\ "storageTier" \in DOMAIN meta
                 /\ InArray(query.storageTiers, meta.storageTier)
        /\ "timeRange" \in DOMAIN query
              => /\ "start" \in DOMAIN query.timeRange
                      => ~(event.timestamp < query.timeRange.start)
                 /\ "end" \in DOMAIN query.timeRange
                      => ~(event.timestamp > query.timeRange.end)
        /\ "filters" \in DOMAIN query
              => \A key \in DOMAIN query.filters :
                     /\ key \in DOMAIN meta
                     /\ meta[key] = query.filters[key]

applyFilters(st, results, query) ==
    SelectSeq(results, LAMBDA event : PassesFilters(st, event, query))

\* a comparator that puts the least accessed record first
CompareLeastAccessedFirst(st, a, b) ==
    LET countA == OrDefault(st.heap[a.metadata], "accessCount", 0)
        countB == OrDefault(st.heap[b.metadata], "accessCount", 0)
    IN  IF countA # countB THEN countA - countB
        ELSE b.timestamp - a.timestamp

\* a comparator that breaks the last tie by putting the oldest record first
CompareOldestFirst(st, a, b) ==
    LET scoreA == OrDefault(a, "_score", 0)
        scoreB == OrDefault(b, "_score", 0)
        metaA == st.heap[a.metadata]
        metaB == st.heap[b.metadata]
    IN  IF scoreA # scoreB THEN scoreB - scoreA
        ELSE IF metaA.importance # metaB.importance
        THEN metaB.importance - metaA.importance
        ELSE a.timestamp - b.timestamp

\* the comparator of sortResults: negative when a sorts before b
Compare(st, a, b) ==
    LET scoreA == OrDefault(a, "_score", 0)
        scoreB == OrDefault(b, "_score", 0)
        metaA == st.heap[a.metadata]
        metaB == st.heap[b.metadata]
        hasA == "importance" \in DOMAIN metaA
        hasB == "importance" \in DOMAIN metaB
    IN  IF scoreA # scoreB THEN scoreB - scoreA
        ELSE IF hasA /\ hasB /\ metaA.importance # metaB.importance
        THEN metaB.importance - metaA.importance
        ELSE IF hasA # hasB THEN 0
        ELSE b.timestamp - a.timestamp

\* Array.prototype.sort is stable: x goes before the first element it
\* strictly precedes
RECURSIVE InsertSorted(_, _, _)
InsertSorted(st, sorted, x) ==
    IF sorted = <<>> THEN <<x>>
    ELSE IF Compare(st, x, Head(sorted)) < 0 THEN <<x>> \o sorted
    ELSE <<Head(sorted)>> \o InsertSorted(st, Tail(sorted), x)

RECURSIVE sortResults(_, _)
sortResults(st, results) ==
    IF results = <<>> THEN <<>>
    ELSE InsertSorted(st, sortResults(st, SubSeq(results, 1, Len(results) - 1)),
                      results[Len(results)])

\* a retrieve that removes the records of the page from the map
TrackAccessEvicts(st, b, page) ==
    LET gone == {page[i].id : i \in 1..Len(page)}
    IN  [st EXCEPT !.events[b] = [id \in (DOMAIN @) \ gone |-> @[id]]]

\* the access metadata of the stored copies of a page
RECURSIVE TrackAccess(_, _, _)
TrackAccess(st, b, page) ==
    IF page = <<>> THEN st
    ELSE LET id == Head(page).id
             next ==
                 IF id \in DOMAIN st.events[b]
                 THEN [st EXCEPT !.heap[st.events[b][id].metadata] =
                          ("lastAccessed" :> clock)
                          @@ ("accessCount" :>
                                 IF "accessCount" \in DOMAIN @ /\ @.accessCount # NaN
                                 THEN @.accessCount + 1 ELSE NaN)
                          @@ @]
                 ELSE st
         IN  TrackAccess(next, b, Tail(page))

\* the filtered, sorted candidates of retrieve, before pagination
matchingEvents(st, b, query) ==
    LET found ==
            IF "id" \in DOMAIN query
            THEN IF query.id \in DOMAIN st.events[b]
                 THEN <<st.events[b][query.id]>> ELSE <<>>
            ELSE searchEvents(st, b, query)
    IN  sortResults(st, applyFilters(st, found, query))

BackendRetrieve(st, b, query) ==
    IF ~backendInitialized[b]
    THEN [ok |-> FALSE, error |-> StorageError("Backend not initialized"), st |-> st,
          result |-> NoResult]
    ELSE LET results == matchingEvents(st, b, query)
             offset == OrDefault(query, "offset", 0)
             limit == OrDefault(query, "limit", DEFAULT_SEARCH_LIMIT)
             paginatedResults == Slice(results, offset, offset + limit)
         IN  [ok |-> TRUE, error |-> NoError,
              st |-> TrackAccess(st, b, paginatedResults),
              result |-> [memories |-> paginatedResults, totalCount |-> Len(results)]]

\* ------------------------------------------------------------ MemoryProtocol
NotInitialized == MemoryProtocolError("Protocol not initialized", CodeBadRequest)

SessionNotFound == MemoryProtocolError("Session not found", CodeNotFound)

\* a call that throws before it changes anything
Reject(call, error) ==
    /\ last' = Throw(call, error)
    /\ UNCHANGED <<initialized, sessions, nextSession, storageBackends,
                   backendInitialized, events, heap, nextId, clock, deletedFrom, pool, pending, transport>>

getRelevantBackends(event) == storageBackends

\* a dispatch that goes on to the next backend after a failure and throws at the end
RECURSIVE StoreLoopContinues(_, _, _)
StoreLoopContinues(st, backends, event) ==
    IF backends = <<>> THEN Done(st)
    ELSE LET r == BackendStore(st, Head(backends), event)
             rest == StoreLoopContinues(r.st, Tail(backends), event)
         IN  IF r.ok THEN rest ELSE Failed(rest.st, r.error)

RECURSIVE StoreLoop(_, _, _)
StoreLoop(st, backends, event) ==
    IF backends = <<>> THEN Done(st)
    ELSE LET r == BackendStore(st, Head(backends), event)
         IN  IF r.ok THEN StoreLoop(r.st, Tail(backends), event) ELSE r

storeEvent(st, event) == StoreLoop(st, getRelevantBackends(event), event)

searchMemories(query) == [memories |-> <<>>, totalCount |-> 0]

RECURSIVE UpdateLoop(_, _, _, _)
UpdateLoop(st, backends, memoryId, updates) ==
    IF backends = <<>> THEN Done(st)
    ELSE LET r == BackendUpdate(st, Head(backends), memoryId, updates)
         IN  IF r.ok THEN UpdateLoop(r.st, Tail(backends), memoryId, updates) ELSE r

RECURSIVE DeleteLoop(_, _, _)
DeleteLoop(st, backends, memoryId) ==
    IF backends = <<>> THEN Done(st)
    ELSE LET r == BackendDelete(st, Head(backends), memoryId)
         IN  IF r.ok THEN DeleteLoop(r.st, Tail(backends), memoryId) ELSE r

\* a shutdown that closes no backend
CloseLoopSkips(st, backends) == st

RECURSIVE CloseLoop(_, _)
CloseLoop(st, backends) ==
    IF backends = <<>> THEN st
    ELSE CloseLoop(BackendClose(st, Head(backends)), Tail(backends))

\* an initialize without the already-initialized check
InitializeUnguarded ==
    /\ initialized' = TRUE
    /\ last' = [Call("initialize", 0, 0) EXCEPT !.emitted = <<Emit("initialized", 0)>>]
    /\ UNCHANGED <<sessions, nextSession, storageBackends, backendInitialized,
                   events, heap, nextId, clock, deletedFrom, pool, pending, transport>>

Initialize ==
    LET call == Call("initialize", 0, 0)
    IN  IF initialized
        THEN Reject(call, MemoryProtocolError("Protocol already initialized", CodeBadRequest))
        ELSE /\ initialized' = TRUE
             /\ last' = [call EXCEPT !.emitted = <<Emit("initialized", 0)>>]
             /\ UNCHANGED <<sessions, nextSession, storageBackends, backendInitialized,
                            events, heap, nextId, clock, deletedFrom, pool, pending, transport>>

CreateSession(userId, agentId) ==
    /\ nextSession <= pool.sessions
    /\ LET sessionId == nextSession
           context == [sessionId |-> sessionId, memoryId |-> 0, timestamp |-> clock,
                       userId |-> userId, agentId |-> agentId]
       IN  /\ sessions' = (sessionId :> context) @@ sessions
           /\ nextSession' = nextSession + 1
           /\ last' = [Call("createSession", 0, 0) EXCEPT
                          !.returned = sessionId,
                          !.emitted = <<Emit("sessionCreated", sessionId)>>]
    /\ UNCHANGED <<initialized, storageBackends, backendInitialized, events, heap,
                   nextId, clock, deletedFrom, pool, pending, transport>>

\* a close that notifies and forgets to remove the session
CloseSessionKeepsSession(sessionId) ==
    LET call == Call("closeSession", sessionId, 0)
    IN  IF sessionId \notin DOMAIN sessions
        THEN Reject(call, SessionNotFound)
        ELSE /\ last' = [call EXCEPT !.emitted = <<Emit("sessionClosed", sessionId)>>]
             /\ UNCHANGED <<initialized, sessions, nextSession, storageBackends,
                            backendInitialized, events, heap, nextId, clock,
                            deletedFrom, pool, pending, transport>>

\* a close that also drops the records stored under the session
CloseSessionDropsRecords(sessionId) ==
    LET call == Call("closeSession", sessionId, 0)
        kept(b) == {id \in DOMAIN events[b] : events[b][id].context.sessionId # sessionId}
    IN  IF sessionId \notin DOMAIN sessions
        THEN Reject(call, SessionNotFound)
        ELSE /\ sessions' = [s \in (DOMAIN sessions) \ {sessionId} |-> sessions[s]]
             /\ Commit([Stores EXCEPT
                           !.events = [b \in Backends |-> [id \in kept(b) |-> events[b][id]]]])
             /\ last' = [call EXCEPT !.emitted = <<Emit("sessionClosed", sessionId)>>]
             /\ UNCHANGED <<initialized, nextSession, storageBackends, backendInitialized,
                            nextId, clock, pool, pending, transport>>

CloseSession(sessionId) ==
    LET call == Call("closeSession", sessionId, 0)
    IN  IF sessionId \notin DOMAIN sessions
        THEN Reject(call, SessionNotFound)
        ELSE /\ sessions' = [s \in (DOMAIN sessions) \ {sessionId} |-> sessions[s]]
             /\ last' = [call EXCEPT !.emitted = <<Emit("sessionClosed", sessionId)>>]
             /\ UNCHANGED <<initialized, nextSession, storageBackends, backendInitialized,
                            events, heap, nextId, clock, deletedFrom, pool, pending, transport>>

Store(content, type, sessionId, metadata) ==
    LET call == Call("store", sessionId, 0)
    IN  IF ~initialized THEN Reject(call, NotInitialized)
        ELSE IF sessionId \notin DOMAIN sessions THEN Reject(call, SessionNotFound)
        ELSE
        /\ nextId <= pool.records
        /\ LET eventId == nextId
               now == clock
               memoryContent ==
                   [text |-> content, keywords |-> extractKeywords(content),
                    tags |-> IF "tags" \in DOMAIN metadata THEN metadata.tags ELSE <<>>]
               memoryMetadata ==
                   metadata @@
                   [source |-> "user", confidence |-> DefaultConfidence,
                    importance |-> DefaultImportance, accessCount |-> 0,
                    lastAccessed |-> now, created |-> now, updated |-> now,
                    storageTier |-> "main_context"]
               ref == eventId
               event ==
                   [id |-> eventId, type |-> "store", memoryType |-> type,
                    context |-> [sessions[sessionId] EXCEPT !.memoryId = eventId],
                    content |-> memoryContent, metadata |-> ref,
                    timestamp |-> now, ttl |-> DEFAULT_TTL]
               r == storeEvent([Stores EXCEPT !.heap = (ref :> memoryMetadata) @@ @], event)
           IN  /\ Commit(r.st)
               /\ last' = IF r.ok
                          THEN [call EXCEPT !.memoryId = eventId, !.returned = eventId,
                                            !.emitted = <<Emit("memoryStored", eventId)>>]
                          ELSE Throw([call EXCEPT !.memoryId = eventId], r.error)
        /\ nextId' = nextId + 1
        /\ UNCHANGED <<initialized, sessions, nextSession, storageBackends,
                       backendInitialized, clock, pool, pending, transport>>

Retrieve(query, sessionId, options) ==
    LET call == Call("retrieve", sessionId, 0)
    IN  IF ~initialized THEN Reject(call, NotInitialized)
        ELSE IF sessionId \notin DOMAIN sessions THEN Reject(call, SessionNotFound)
        ELSE LET memoryQuery ==
                     options @@
                     [query |-> query, limit |-> DEFAULT_SEARCH_LIMIT,
                      threshold |-> DEFAULT_SIMILARITY_THRESHOLD,
                      includeMetadata |-> TRUE, includeContent |-> TRUE]
                 results == searchMemories(memoryQuery)
             IN  /\ last' = [call EXCEPT !.query = memoryQuery, !.result = results,
                                         !.emitted = <<Emit("memoryRetrieved", 0)>>]
                 /\ UNCHANGED <<initialized, sessions, nextSession, storageBackends,
                                backendInitialized, events, heap, nextId, clock,
                                deletedFrom, pool, pending, transport>>

\* `updates` is one object: the metadata it carries is one object for all backends
Update(memoryId, updates, sessionId) ==
    LET call == Call("update", sessionId, memoryId)
    IN  IF ~initialized THEN Reject(call, NotInitialized)
        ELSE IF sessionId \notin DOMAIN sessions THEN Reject(call, SessionNotFound)
        ELSE LET ref == NewRef(heap)
                 carried == "metadata" \in DOMAIN updates
                 object == IF carried THEN [updates EXCEPT !.metadata = ref] ELSE updates
                 st == IF carried
                       THEN [Stores EXCEPT !.heap = (ref :> updates.metadata) @@ @]
                       ELSE Stores
                 r == UpdateLoop(st, storageBackends, memoryId, object)
             IN  /\ Commit(r.st)
                 /\ last' = IF r.ok
                            THEN [call EXCEPT !.emitted = <<Emit("memoryUpdated", memoryId)>>]
                            ELSE Throw(call, r.error)
                 /\ UNCHANGED <<initialized, sessions, nextSession, storageBackends,
                                backendInitialized, nextId, clock, pool, pending, transport>>

\* a delete that does not look the session up
DeleteWithoutSession(memoryId, sessionId) ==
    LET call == Call("delete", sessionId, memoryId)
    IN  IF ~initialized THEN Reject(call, NotInitialized)
        ELSE LET r == DeleteLoop(Stores, storageBackends, memoryId)
             IN  /\ Commit(r.st)
                 /\ last' = IF r.ok
                            THEN [call EXCEPT !.emitted = <<Emit("memoryDeleted", memoryId)>>]
                            ELSE Throw(call, r.error)
                 /\ UNCHANGED <<initialized, sessions, nextSession, storageBackends,
                                backendInitialized, nextId, clock, pool, pending, transport>>

\* a delete that lets a session delete only the records it stored
DeleteOwnRecords(memoryId, sessionId) ==
    LET call == Call("delete", sessionId, memoryId)
        foreign == \E b \in Backends :
                       /\ memoryId \in DOMAIN events[b]
                       /\ events[b][memoryId].context.sessionId # sessionId
    IN  IF ~initialized THEN Reject(call, NotInitialized)
        ELSE IF sessionId \notin DOMAIN sessions THEN Reject(call, SessionNotFound)
        ELSE IF foreign THEN Reject(call, MemoryProtocolError("Forbidden", 403))
        ELSE LET r == DeleteLoop(Stores, storageBackends, memoryId)
             IN  /\ Commit(r.st)
                 /\ last' = IF r.ok
                            THEN [call EXCEPT !.emitted = <<Emit("memoryDeleted", memoryId)>>]
                            ELSE Throw(call, r.error)
                 /\ UNCHANGED <<initialized, sessions, nextSession, storageBackends,
                                backendInitialized, nextId, clock, pool, pending, transport>>

Delete(memoryId, sessionId) ==
    LET call == Call("delete", sessionId, memoryId)
    IN  IF ~initialized THEN Reject(call, NotInitialized)
        ELSE IF sessionId \notin DOMAIN sessions THEN Reject(call, SessionNotFound)
        ELSE LET r == DeleteLoop(Stores, storageBackends, memoryId)
             IN  /\ Commit(r.st)
                 /\ last' = IF r.ok
                            THEN [call EXCEPT !.emitted = <<Emit("memoryDeleted", memoryId)>>]
                            ELSE Throw(call, r.error)
                 /\ UNCHANGED <<initialized, sessions, nextSession, storageBackends,
                                backendInitialized, nextId, clock, pool, pending, transport>>

\* `private transports: Map<string, Transport> = new Map()`: nothing puts a
\* transport into it
transports == <<>>

\* the calls shutdown makes, in the order it makes them
ShutdownCalls ==
    LET closed == SeqOfIds(DOMAIN sessions)
    IN  [i \in 1..Len(closed) |-> [op |-> "closeSession", arg |-> closed[i]]]
        \o [i \in 1..Len(transports) |-> [op |-> "disconnect", arg |-> transports[i]]]
        \o [i \in 1..Len(storageBackends) |->
               [op |-> "backend.close", arg |-> storageBackends[i]]]

Shutdown ==
    LET closed == SeqOfIds(DOMAIN sessions)
    IN  /\ sessions' = <<>>
        /\ Commit(CloseLoop(Stores, storageBackends))
        /\ backendInitialized' =
               [b \in Backends |->
                   IF InArray(storageBackends, b) THEN FALSE ELSE backendInitialized[b]]
        /\ initialized' = FALSE
        /\ last' = [Call("shutdown", 0, 0) EXCEPT
                       !.calls = ShutdownCalls,
                       !.emitted =
                           [i \in 1..Len(closed) |-> Emit("sessionClosed", closed[i])]
                           \o <<Emit("shutdown", 0)>>]
        /\ UNCHANGED <<nextSession, storageBackends, nextId, clock, pool, pending, transport>>

\* ------------------------------------------------------------ the embedding program
\* `protocol['storageBackends'].set(name, backend)`
RegisterBackend(b) ==
    /\ b = Len(storageBackends) + 1
    /\ storageBackends' = Append(storageBackends, b)
    /\ last' = [Call("register", 0, 0) EXCEPT !.backend = b]
    /\ UNCHANGED <<initialized, sessions, nextSession, backendInitialized, events,
                   heap, nextId, clock, deletedFrom, pool, pending, transport>>

\* an initialize that never refuses
BackendInitializeAgain(b) ==
    /\ backendInitialized' = [backendInitialized EXCEPT ![b] = TRUE]
    /\ last' = [Call("backend.initialize", 0, 0) EXCEPT !.backend = b]
    /\ UNCHANGED <<initialized, sessions, nextSession, storageBackends, events,
                   heap, nextId, clock, deletedFrom, pool, pending, transport>>

\* `await backend.initialize()` on a backend object
BackendInitialize(b) ==
    LET call == [Call("backend.initialize", 0, 0) EXCEPT !.backend = b]
    IN  IF backendInitialized[b]
        THEN Reject(call, StorageError("Backend already initialized"))
        ELSE /\ backendInitialized' = [backendInitialized EXCEPT ![b] = TRUE]
             /\ last' = call
             /\ UNCHANGED <<initialized, sessions, nextSession, storageBackends, events,
                            heap, nextId, clock, deletedFrom, pool, pending, transport>>

\* ------------------------------------------------------------ inputs
UserIds == {"user123"}

AgentIds == {"agent456"}

StoreInputs ==
    { [content |-> TextTypeScript, type |-> "semantic",
       metadata |-> [importance |-> 8, tags |-> <<TagPreference, TagProgramming>>]],
      [content |-> TextTea, type |-> "working", metadata |-> <<>>] }

RetrieveInputs ==
    { [query |-> QueryProgrammingPreferences, options |-> <<>>],
      [query |-> QueryProgramming, options |-> [limit |-> 1]] }

UpdateInputs ==
    { [metadata |-> [importance |-> 9]],
      [content |-> [text |-> TextTea, tags |-> <<TagTea>>]] }

Next ==
    \/ Initialize
    \/ \E u \in UserIds, a \in AgentIds : CreateSession(u, a)
    \/ \E s \in SessionIds : CloseSession(s)
    \/ \E i \in StoreInputs, s \in SessionIds : Store(i.content, i.type, s, i.metadata)
    \/ \E i \in RetrieveInputs, s \in SessionIds : Retrieve(i.query, s, i.options)
    \/ \E id \in EventIds, u \in UpdateInputs, s \in SessionIds : Update(id, u, s)
    \/ \E id \in EventIds, s \in SessionIds : Delete(id, s)
    \/ Shutdown
    \/ \E b \in Backends : RegisterBackend(b)
    \/ \E b \in Backends : BackendInitialize(b)

\* The dispatcher over NumBackends backend objects, driven by one caller session.
Spec == Init /\ [][Next]_vars

\* The session table with MaxSessions sessions, over one backend object.
SpecSessions == InitSessions /\ [][Next]_vars

\* ------------------------------------------------------------ claims
Registered == {storageBackends[i] : i \in 1..Len(storageBackends)}

\* everything but `last`
ProtocolState ==
    <<initialized, sessions, nextSession, storageBackends, backendInitialized,
      events, heap, nextId, clock, deletedFrom, pool, pending, transport>>

Ids(memories) == [i \in 1..Len(memories) |-> memories[i].id]

\* the record of the Quick Start scenario
IsTypeScriptPreference(event) ==
    /\ event.content.text = TextTypeScript
    /\ event.memoryType = "semantic"
    /\ event.content.tags = <<TagPreference, TagProgramming>>

\* C1: a record stored as semantic with text "The user prefers TypeScript over
\* JavaScript" and tags [preference, programming] is among the memories that
\* protocol.retrieve("programming preferences") returns at the default threshold.
C1_StoredRecordIsRetrieved ==
    ( /\ last.op = "retrieve"
      /\ last.outcome = "ok"
      /\ last.query.query = QueryProgrammingPreferences
      /\ last.query.threshold = DEFAULT_SIMILARITY_THRESHOLD )
    => \A b \in Registered : \A id \in DOMAIN events[b] :
           IsTypeScriptPreference(events[b][id])
           => InArray(Ids(last.result.memories), id)

\* the backends a query's storageTiers filter permits
RECURSIVE MergedMatches(_, _)
MergedMatches(backends, query) ==
    IF backends = <<>> THEN <<>>
    ELSE LET b == Head(backends)
             permitted ==
                 ("storageTiers" \in DOMAIN query /\ Len(query.storageTiers) > 0)
                 => InArray(query.storageTiers, BackendTier(b))
         IN  (IF permitted /\ backendInitialized[b]
              THEN matchingEvents(Stores, b, query) ELSE <<>>)
             \o MergedMatches(Tail(backends), query)

\* C2: the result of protocol.retrieve is the sorted merge of the matches of
\* every permitted registered backend, paginated once: its memories are the slice
\* [offset, offset+limit) of the merge and totalCount is the size of the merge.
C2_RetrieveMergesBackends ==
    (last.op = "retrieve" /\ last.outcome = "ok")
    => LET merged == sortResults(Stores, MergedMatches(storageBackends, last.query))
           offset == OrDefault(last.query, "offset", 0)
           limit == OrDefault(last.query, "limit", DEFAULT_SEARCH_LIMIT)
       IN  /\ last.result.totalCount = Len(merged)
           /\ Ids(last.result.memories) = Ids(Slice(merged, offset, offset + limit))

RetrieveById(b, id) == BackendRetrieve(Stores, b, [id |-> id, query |-> <<>>])

\* C3: once delete(id) has succeeded on a backend, that backend's
\* retrieve({id}) returns no memories and totalCount 0, whatever is called
\* afterwards; and after a successful protocol.delete(id) this is so for every
\* registered backend.
C3_DeletedStaysDeleted ==
    /\ \A b \in Backends : \A id \in deletedFrom[b] :
           /\ id \notin DOMAIN events[b]
           /\ backendInitialized[b]
                  => /\ RetrieveById(b, id).ok
                     /\ RetrieveById(b, id).result = NoResult
    /\ (last.op = "delete" /\ last.outcome = "ok")
           => \A b \in Registered :
                  /\ last.memoryId \in deletedFrom[b]
                  /\ RetrieveById(b, last.memoryId).result = NoResult

C3_Witness ==
    /\ last.op = "update"
    /\ \E b \in Registered : deletedFrom[b] # {} /\ backendInitialized[b]

RecordOps == {"store", "retrieve", "update", "delete"}

SessionOps == RecordOps \cup {"closeSession"}

\* C4 as claimed: in every protocol state, store, retrieve, update, delete and
\* closeSession with a sessionId that is not open fail with session-not-found
\* and change neither the session table nor the backends.
C4_UnknownSessionAlwaysNotFound ==
    [][ (last'.op \in SessionOps /\ last'.sessionId \notin DOMAIN sessions)
        => /\ last'.outcome = "error"
           /\ last'.error = SessionNotFound
           /\ UNCHANGED ProtocolState ]_vars

\* C4, amended: with a sessionId that is not open, closeSession in every
\* protocol state, and store, retrieve, update and delete while the protocol is
\* initialized, fail with session-not-found; before initialize and after shutdown
\* store, retrieve, update and delete fail with not-initialized instead.  Either
\* way the session table and the backends are unchanged.
C4_UnknownSessionRejected ==
    [][ (last'.op \in SessionOps /\ last'.sessionId \notin DOMAIN sessions)
        => /\ last'.outcome = "error"
           /\ last'.error = IF initialized \/ last'.op = "closeSession"
                            THEN SessionNotFound ELSE NotInitialized
           /\ UNCHANGED ProtocolState ]_vars

C4_Witness ==
    /\ last.op = "store"
    /\ last.error = SessionNotFound
    /\ last.sessionId < nextSession
    /\ \E b \in Registered : events[b] # <<>>

\* C5: closeSession(s) on an open session removes exactly s from the session
\* table and emits one session-closed notification; on a session that is not
\* open it fails with not-found and changes nothing.  A closed session is never
\* open again, so a second close fails and every later operation with s is
\* rejected.
C5_CloseSession ==
    [][ /\ last'.op = "closeSession"
            => IF last'.sessionId \in DOMAIN sessions
               THEN /\ last'.outcome = "ok"
                    /\ DOMAIN sessions' = (DOMAIN sessions) \ {last'.sessionId}
                    /\ \A s \in DOMAIN sessions' : sessions'[s] = sessions[s]
                    /\ last'.emitted = <<Emit("sessionClosed", last'.sessionId)>>
               ELSE /\ last'.outcome = "error"
                    /\ last'.error.code = CodeNotFound
                    /\ last'.emitted = <<>>
                    /\ UNCHANGED ProtocolState
        /\ \A s \in 1..(nextSession - 1) :
               s \notin DOMAIN sessions => s \notin DOMAIN sessions'
        /\ (last'.op \in SessionOps /\ last'.sessionId \notin DOMAIN sessions)
               => last'.outcome = "error" ]_vars

C5_Witness ==
    /\ last.op = "closeSession"
    /\ last.outcome = "ok"
    /\ last.sessionId \notin DOMAIN sessions
    /\ DOMAIN sessions # {}

\* C6: closeSession leaves the records of every backend as they are: the events
\* and their metadata objects are unchanged by the call.
C6_CloseSessionKeepsRecords ==
    [][ last'.op = "closeSession" => UNCHANGED <<events, heap, backendInitialized>> ]_vars

C6_Witness ==
    /\ last.op = "closeSession"
    /\ last.outcome = "ok"
    /\ \A b \in Registered : \E id \in DOMAIN events[b] :
           events[b][id].context.sessionId = last.sessionId
    /\ Len(storageBackends) > 1

C8_FailedStoreIsPartial ==
    (last.op = "store" /\ last.outcome = "error" /\ last.error.name = "StorageError")
    => /\ \E k \in 1..Len(storageBackends) :
              /\ ~backendInitialized[storageBackends[k]]
              /\ \A j \in 1..Len(storageBackends) :
                     (last.memoryId \in DOMAIN events[storageBackends[j]]) <=> (j < k)
       /\ last.returned = 0
       /\ last.emitted = <<>>

C8_Witness ==
    /\ last.op = "store"
    /\ last.outcome = "error"
    /\ \E b \in Registered : last.memoryId \in DOMAIN events[b]

\* C9: the error of a failed protocol.store is one StorageFailure whose data
\* names the backends that had stored the record before the failure.
C9_StoreFailureNamesBackends ==
    (last.op = "store" /\ last.outcome = "error" /\ last.error.code = CodeStorage)
    => /\ "data" \in DOMAIN last.error
       /\ last.error.data = {b \in Registered : last.memoryId \in DOMAIN events[b]}

\* the default routing policy of the dispatcher
EligibleTiers(memoryType) ==
    CASE memoryType = "working" -> {"main_context"}
      [] memoryType \in {"episodic", "semantic", "procedural"} ->
             {"main_context", "vector_store"}
      [] OTHER -> StorageTiers

\* C10: a record is held only by backends whose tier is eligible for its
\* memoryType: working by main_context backends, episodic, semantic and
\* procedural by main_context and vector_store backends.
C10_StoreRoutesByTier ==
    \A b \in Registered : \A id \in DOMAIN events[b] :
        BackendTier(b) \in EligibleTiers(events[b][id].memoryType)

\* C11: a successful update keeps every metadata key that the update's metadata
\* does not carry (accessCount, created, confidence, storageTier, ... when only
\* importance is supplied), replaces a carried top-level field wholesale and
\* leaves the other top-level fields as they were.
C11_UpdateMergesMetadata ==
    [][ (last'.op = "update" /\ last'.outcome = "ok")
        => \A b \in Registered :
               last'.memoryId \in DOMAIN events[b]
               => \E u \in UpdateInputs :
                      LET id == last'.memoryId
                          old == heap[events[b][id].metadata]
                          new == heap'[events'[b][id].metadata]
                          given == IF "metadata" \in DOMAIN u THEN u.metadata ELSE <<>>
                      IN  /\ \A k \in (DOMAIN old) \ {"updated"} :
                                 /\ k \in DOMAIN new
                                 /\ new[k] = IF k \in DOMAIN given THEN given[k] ELSE old[k]
                          /\ events'[b][id].content =
                                 IF "content" \in DOMAIN u THEN u.content
                                 ELSE events[b][id].content
                          /\ events'[b][id].memoryType = events[b][id].memoryType ]_vars

\* ------------------------------------------------------------ consolidation engine
\* events the program hands to backend.store (specification SpecBackend)
MaxStored == 2
\* the largest accessCount a call may produce
MaxAccess == 3

\* "Aa" and "BB"
TextAa == <<65, 97>>
TextBB == <<66, 66>>
\* "a"
QueryA == <<97>>

Word == 2 ^ 16

\* `hash = ((hash << 5) - hash) + char; hash = hash & hash`: 31 * hash + char in
\* 32 bits two's complement, computed on the two 16-bit halves of hash
RECURSIVE HashFrom(_, _, _, _)
HashFrom(content, i, hi, lo) ==
    IF i > Len(content)
    THEN (IF hi >= Word \div 2 THEN hi - Word ELSE hi) * Word + lo
    ELSE LET low == 31 * lo + content[i]
         IN  HashFrom(content, i + 1, (31 * hi + low \div Word) % Word, low % Word)

hashContent(content) == HashFrom(content, 1, 0, 0)

\* a metadata number as arithmetic reads it: a missing key is undefined, and
\* undefined in arithmetic is NaN
Num(meta, key) == IF key \in DOMAIN meta THEN meta[key] ELSE NaN

Plus(x, y) == IF x = NaN \/ y = NaN THEN NaN ELSE x + y

\* Math.min(1.0, x)
MinOne(x) == IF x = NaN THEN NaN ELSE IF x > 10 THEN 10 ELSE x

\* a fold that adds 0.1 without Math.min
FoldUnclamped(h, existing, event) ==
    LET raised == [h EXCEPT ![existing.metadata] =
                      ("importance" :> Plus(Num(@, "importance"), 1)) @@ @]
    IN  [raised EXCEPT ![existing.metadata] =
            ("accessCount" :> Plus(Num(@, "accessCount"),
                                   Num(raised[event.metadata], "accessCount"))) @@ @]

\* the else branch of consolidate: event is merged into existing
Fold(h, existing, event) ==
    LET raised == [h EXCEPT ![existing.metadata] =
                      ("importance" :> MinOne(Plus(Num(@, "importance"), 1))) @@ @]
    IN  [raised EXCEPT ![existing.metadata] =
            ("accessCount" :> Plus(Num(@, "accessCount"),
                                   Num(raised[event.metadata], "accessCount"))) @@ @]

\* consolidated.find(e => hashContent(e.content.text) === contentHash)
Find(consolidated, contentHash) ==
    LET hits == {i \in 1..Len(consolidated) :
                    hashContent(consolidated[i].content.text) = contentHash}
    IN  consolidated[CHOOSE i \in hits : \A j \in hits : i <= j]

RECURSIVE ConsolidateLoop(_, _, _, _)
ConsolidateLoop(h, input, consolidated, seen) ==
    IF input = <<>> THEN [heap |-> h, consolidated |-> consolidated]
    ELSE LET event == Head(input)
             contentHash == hashContent(event.content.text)
         IN  IF contentHash \notin seen
             THEN ConsolidateLoop(h, Tail(input), Append(consolidated, event),
                                  seen \cup {contentHash})
             ELSE ConsolidateLoop(Fold(h, Find(consolidated, contentHash), event),
                                  Tail(input), consolidated, seen)

\* backend.consolidate(events): the array it returns and the metadata objects
\* after it; the backend's own map is not read or written
BackendConsolidate(st, b, input) ==
    IF ~backendInitialized[b]
    THEN [ok |-> FALSE, error |-> StorageError("Backend not initialized"), st |-> st,
          result |-> NoResult]
    ELSE LET r == ConsolidateLoop(st.heap, input, <<>>, {})
         IN  [ok |-> TRUE, error |-> NoError, st |-> [st EXCEPT !.heap = r.heap],
              result |-> [memories |-> r.consolidated,
                          totalCount |-> Len(r.consolidated)]]

\* Array.from(this.events.values())
getAllEvents(st, b) ==
    LET ids == SeqOfIds(DOMAIN st.events[b])
    IN  [i \in 1..Len(ids) |-> st.events[b][ids[i]]]

\* ------------------------------------------------------------ the backend, called directly
\* a call of a method of backend object b
BackendCall(op, b, memoryId) == [Call(op, 0, memoryId) EXCEPT !.backend = b]

\* every accessCount of the stores is within the bound
AccessWithin(st) ==
    \A r \in DOMAIN st.heap :
        "accessCount" \in DOMAIN st.heap[r] => st.heap[r].accessCount <= MaxAccess

ProtocolUnchanged == UNCHANGED <<initialized, sessions, nextSession, storageBackends>>

\* `await backend.store(event)` with an event shaped as protocol.store shapes it
BackendStoreCall(b, content, type, sessionId, metadata) ==
    /\ nextId <= pool.records
    /\ LET eventId == nextId
           now == clock
           memoryMetadata ==
               metadata @@
               [source |-> "user", confidence |-> DefaultConfidence,
                importance |-> DefaultImportance, accessCount |-> 0,
                lastAccessed |-> now, created |-> now, updated |-> now,
                storageTier |-> "main_context"]
           event ==
               [id |-> eventId, type |-> "store", memoryType |-> type,
                context |-> [sessionId |-> sessionId, memoryId |-> eventId,
                             timestamp |-> now, userId |-> "user123",
                             agentId |-> "agent456"],
                content |-> [text |-> content, keywords |-> extractKeywords(content),
                             tags |-> IF "tags" \in DOMAIN metadata
                                      THEN metadata.tags ELSE <<>>],
                metadata |-> eventId, timestamp |-> now, ttl |-> DEFAULT_TTL]
           r == BackendStore([Stores EXCEPT !.heap = (eventId :> memoryMetadata) @@ @],
                             b, event)
           call == BackendCall("backend.store", b, eventId)
       IN  /\ Commit(r.st)
           /\ last' = IF r.ok THEN call ELSE Throw(call, r.error)
    /\ nextId' = nextId + 1
    /\ ProtocolUnchanged
    /\ UNCHANGED <<backendInitialized, clock, pool, pending, transport>>

\* `await backend.retrieve(query)`
BackendRetrieveCall(b, query) ==
    LET call == [BackendCall("backend.retrieve", b, 0) EXCEPT !.query = query]
        r == BackendRetrieve(Stores, b, query)
    IN  /\ AccessWithin(r.st)
        /\ Commit(r.st)
        /\ last' = IF r.ok THEN [call EXCEPT !.result = r.result] ELSE Throw(call, r.error)
        /\ ProtocolUnchanged
        /\ UNCHANGED <<backendInitialized, nextId, clock, pool, pending, transport>>

\* `await backend.update(id, updates)`
BackendUpdateCall(b, id, updates) ==
    LET call == BackendCall("backend.update", b, id)
        ref == NewRef(heap)
        carried == "metadata" \in DOMAIN updates
        object == IF carried THEN [updates EXCEPT !.metadata = ref] ELSE updates
        st == IF carried
              THEN [Stores EXCEPT !.heap = (ref :> updates.metadata) @@ @]
              ELSE Stores
        r == BackendUpdate(st, b, id, object)
    IN  /\ Commit(r.st)
        /\ last' = IF r.ok THEN call ELSE Throw(call, r.error)
        /\ ProtocolUnchanged
        /\ UNCHANGED <<backendInitialized, nextId, clock, pool, pending, transport>>

\* `await backend.delete(id)`
BackendDeleteCall(b, id) ==
    LET call == BackendCall("backend.delete", b, id)
        r == BackendDelete(Stores, b, id)
    IN  /\ Commit(r.st)
        /\ last' = IF r.ok THEN call ELSE Throw(call, r.error)
        /\ ProtocolUnchanged
        /\ UNCHANGED <<backendInitialized, nextId, clock, pool, pending, transport>>

\* `await backend.consolidate(backend.getAllEvents())`
BackendConsolidateCall(b) ==
    LET call == BackendCall("backend.consolidate", b, 0)
        r == BackendConsolidate(Stores, b, getAllEvents(Stores, b))
    IN  /\ AccessWithin(r.st)
        /\ Commit(r.st)
        /\ last' = IF r.ok THEN [call EXCEPT !.result = r.result] ELSE Throw(call, r.error)
        /\ ProtocolUnchanged
        /\ UNCHANGED <<backendInitialized, nextId, clock, pool, pending, transport>>

\* `await backend.close()`
BackendCloseCall(b) ==
    /\ Commit(BackendClose(Stores, b))
    /\ backendInitialized' = [backendInitialized EXCEPT ![b] = FALSE]
    /\ last' = BackendCall("backend.close", b, 0)
    /\ ProtocolUnchanged
    /\ UNCHANGED <<nextId, clock, pool, pending, transport>>

BackendStoreInputs ==
    { [content |-> TextAa, type |-> "semantic", sessionId |-> 1,
       metadata |-> [importance |-> 10]],
      [content |-> TextBB, type |-> "working", sessionId |-> 2, metadata |-> <<>>] }

BackendQueries ==
    { [query |-> QueryA, limit |-> 1],
      [query |-> QueryA, limit |-> 1, offset |-> 1],
      [query |-> QueryA, limit |-> 0],
      [query |-> <<>>, id |-> 1] }

BackendUpdateInputs == { [metadata |-> [importance |-> 9]] }

NextBackend ==
    \/ \E b \in Backends : BackendInitialize(b)
    \/ \E b \in Backends, i \in BackendStoreInputs :
           BackendStoreCall(b, i.content, i.type, i.sessionId, i.metadata)
    \/ \E b \in Backends, q \in BackendQueries : BackendRetrieveCall(b, q)
    \/ \E b \in Backends, id \in EventIds, u \in BackendUpdateInputs :
           BackendUpdateCall(b, id, u)
    \/ \E b \in Backends, id \in EventIds : BackendDeleteCall(b, id)
    \/ \E b \in Backends : BackendConsolidateCall(b)
    \/ \E b \in Backends : BackendCloseCall(b)

\* one backend object, MaxStored events handed to it
InitBackend == Constructed([backends |-> 1, sessions |-> 1, records |-> MaxStored])

\* An InMemoryBackend object driven directly through the StorageBackend interface.
SpecBackend == InitBackend /\ [][NextBackend]_vars

\* ------------------------------------------------------------ claims on the backend
PageIds(call) == {call.result.memories[i].id : i \in 1..Len(call.result.memories)}

AccessKeys == {"accessCount", "lastAccessed"}

\* C12: after backend.retrieve returns a page, the stored accessCount of every
\* record of the page is one greater than before the call and its lastAccessed is
\* the call time; every stored record outside the page keeps both.
C12_RetrieveTracksAccess ==
    [][ (last'.op = "backend.retrieve" /\ last'.outcome = "ok")
        => \A id \in DOMAIN events[last'.backend] :
               LET old == heap[events[last'.backend][id].metadata]
                   new == heap'[events'[last'.backend][id].metadata]
               IN  IF id \in PageIds(last')
                   THEN /\ "accessCount" \in DOMAIN old
                        /\ old.accessCount # NaN
                        /\ new.accessCount = old.accessCount + 1
                        /\ new.lastAccessed = clock'
                   ELSE \A k \in AccessKeys :
                            /\ k \in DOMAIN old <=> k \in DOMAIN new
                            /\ k \in DOMAIN old => new[k] = old[k] ]_vars

\* C13: the records backend.retrieve returns are snapshots taken before access
\* tracking: the accessCount and lastAccessed read from a returned record after
\* the call are the stored values from before the call.
C13_ReturnedRecordsAreSnapshots ==
    [][ (last'.op = "backend.retrieve" /\ last'.outcome = "ok")
        => \A i \in 1..Len(last'.result.memories) :
               LET returned == last'.result.memories[i]
                   before == heap[events[last'.backend][returned.id].metadata]
                   seen == heap'[returned.metadata]
               IN  \A k \in AccessKeys :
                       k \in DOMAIN before
                       => /\ k \in DOMAIN seen
                          /\ seen[k] = before[k] ]_vars

\* C14: for a query with supplied limit >= 0 and offset >= 0, backend.retrieve
\* returns the slice [offset, offset+limit) of the sorted, filtered candidates
\* and totalCount is the number of candidates; so it returns at most limit
\* records and at most totalCount.
C14_RetrieveReturnsSlice ==
    [][ ( /\ last'.op = "backend.retrieve"
          /\ last'.outcome = "ok"
          /\ "limit" \in DOMAIN last'.query )
        => LET query == last'.query
               candidates == matchingEvents(Stores, last'.backend, query)
               offset == IF "offset" \in DOMAIN query THEN query.offset ELSE 0
               memories == last'.result.memories
           IN  /\ Ids(memories) = Ids(Slice(candidates, offset, offset + query.limit))
               /\ last'.result.totalCount = Len(candidates)
               /\ Len(memories) <= query.limit
               /\ Len(memories) <= last'.result.totalCount ]_vars

\* the pages backend.retrieve returns at offsets from, from + limit, ... up to
\* the first empty page, each call made on the stores the previous call left
RECURSIVE Pages(_, _, _, _, _)
Pages(st, b, query, limit, from) ==
    LET r == BackendRetrieve(st, b, ("limit" :> limit) @@ ("offset" :> from) @@ query)
    IN  IF r.result.memories = <<>> THEN <<>>
        ELSE r.result.memories \o Pages(r.st, b, query, limit, from + limit)

\* queries without limit and offset: "a", and "" which every text includes
PagedQueries == { [query |-> QueryA], [query |-> <<>>] }

PageLimits == 1..(MaxStored + 1)

SameText(input, i) ==
    {j \in 1..Len(input) : input[j].content.text = input[i].content.text}

IsFirstOfText(input, i) == \A j \in SameText(input, i) : i <= j

RECURSIVE SumAccess(_, _, _)
SumAccess(h, input, positions) ==
    IF positions = {} THEN 0
    ELSE LET j == CHOOSE j \in positions : TRUE
         IN  h[input[j].metadata].accessCount + SumAccess(h, input, positions \ {j})

\* every record of the input carries a numeric accessCount and importance
Countable(h, input) ==
    \A i \in 1..Len(input) :
        /\ Num(h[input[i].metadata], "accessCount") # NaN
        /\ Num(h[input[i].metadata], "importance") # NaN

\* C17: consolidate returns, in input order, exactly one record per text of the
\* input: the first record with that text, whose accessCount becomes the sum of
\* the accessCounts of the N records with that text and whose importance becomes
\* min(1.0, importance + 0.1 * (N - 1)); a record whose text no other record has
\* is returned unchanged.
C17_ConsolidateFoldsPerText ==
    [][ ( /\ last'.op = "backend.consolidate"
          /\ last'.outcome = "ok"
          /\ Countable(heap, getAllEvents(Stores, last'.backend)) )
        => LET input == getAllEvents(Stores, last'.backend)
               firsts == SelectSeq([i \in 1..Len(input) |-> i],
                                   LAMBDA i : IsFirstOfText(input, i))
               output == last'.result.memories
           IN  /\ Ids(output) = [k \in 1..Len(firsts) |-> input[firsts[k]].id]
               /\ \A k \in 1..Len(firsts) :
                      LET group == SameText(input, firsts[k])
                          old == heap[input[firsts[k]].metadata]
                          new == heap'[input[firsts[k]].metadata]
                      IN  /\ new.accessCount = SumAccess(heap, input, group)
                          /\ new.importance =
                                 MinOne(old.importance + (Cardinality(group) - 1)) ]_vars

\* C18: importance stays within [0, 1] under consolidation: the records are
\* stored with an importance in [0, 1], and after any number of folds and of
\* consolidate calls over the same records every record consolidate returns, and
\* every stored record, still has its importance in [0, 1].
C18_ImportanceStaysBounded ==
    /\ \A r \in DOMAIN heap :
           "importance" \in DOMAIN heap[r]
           => heap[r].importance >= 0 /\ heap[r].importance <= 10
    /\ (last.op = "backend.consolidate" /\ last.outcome = "ok")
           => \A i \in 1..Len(last.result.memories) :
                  LET meta == heap[last.result.memories[i].metadata]
                  IN  meta.importance >= 0 /\ meta.importance <= 10

\* a record stored with importance 1.0 has had another record folded into it
C18_Witness ==
    /\ last.op = "backend.consolidate"
    /\ last.outcome = "ok"
    /\ Len(last.result.memories) = 1
    /\ Cardinality(DOMAIN events[last.backend]) = 2
    /\ LET kept == last.result.memories[1]
       IN  /\ kept.context.sessionId = 1
           /\ kept.content.text = TextAa
           /\ "source" \in DOMAIN heap[kept.metadata]
           /\ heap[kept.metadata].importance = 10
           /\ heap[kept.metadata].accessCount = MaxAccess

\* C19: consolidate folds a record into another only when their texts are the
\* same: of two input records with different texts both are returned, and
\* neither's importance or accessCount is changed by the other.
C19_DifferentTextsAreKeptApart ==
    [][ (last'.op = "backend.consolidate" /\ last'.outcome = "ok")
        => LET input == getAllEvents(Stores, last'.backend)
               output == last'.result.memories
           IN  /\ \A i \in 1..Len(input) :
                      IsFirstOfText(input, i) => InArray(Ids(output), input[i].id)
               /\ \A i \in 1..Len(input) :
                      SameText(input, i) = {i}
                      => heap'[input[i].metadata] = heap[input[i].metadata] ]_vars

\* C20: after consolidate has run over a backend's records the backend holds
\* no record that was folded into another (a lookup by its id finds nothing)
\* and holds one record per distinct content.
C20_FoldedRecordsAreDestroyed ==
    [][ (last'.op = "backend.consolidate" /\ last'.outcome = "ok")
        => LET b == last'.backend
               kept == PageIds(last')
           IN  /\ \A id \in (DOMAIN events[b]) \ kept : id \notin DOMAIN events'[b]
               /\ \A i, j \in DOMAIN events'[b] :
                      events'[b][i].content.text = events'[b][j].content.text
                      => i = j ]_vars

\* ------------------------------------------------------------ caller-chosen payloads
MaxHeld == 1

\* protocol.store's arguments; the first carries an importance of 1.5 in its
\* metadata overrides
PayloadStoreInputs ==
    { [content |-> TextAa, type |-> "semantic", sessionId |-> 1,
       metadata |-> [importance |-> 15]],
      [content |-> TextBB, type |-> "working", sessionId |-> 1, metadata |-> <<>>] }

\* `Partial<MemoryEvent>` objects handed to update: the metadata of the usage
\* example's update call, a metadata with a confidence of 1.2, and one that
\* names an id and a memoryType
PayloadUpdateInputs ==
    { [metadata |-> [importance |-> 9, source |-> "user_conversation", confidence |-> 9,
                     accessCount |-> 1, lastAccessed |-> 0, created |-> 0,
                     updated |-> 0, storageTier |-> "main_context"]],
      [metadata |-> [importance |-> 9, confidence |-> 12]],
      [id |-> MaxHeld + 1, memoryType |-> "archival"] }

\* queries with a threshold of 0, with none, and one above the text score
PayloadQueries ==
    { [query |-> QueryA, threshold |-> 0],
      [query |-> QueryA],
      [query |-> QueryA, threshold |-> TextScore + 1] }

NextPayloads ==
    \/ \E b \in Backends : BackendInitialize(b)
    \/ \E b \in Backends, i \in PayloadStoreInputs :
           BackendStoreCall(b, i.content, i.type, i.sessionId, i.metadata)
    \/ \E b \in Backends, q \in PayloadQueries : BackendRetrieveCall(b, q)
    \/ \E b \in Backends, id \in EventIds, u \in PayloadUpdateInputs :
           BackendUpdateCall(b, id, u)
    \/ \E b \in Backends : BackendConsolidateCall(b)

InitPayloads == Constructed([backends |-> 1, sessions |-> 1, records |-> MaxHeld])

\* One InMemoryBackend object handed whatever its callers choose to send.
SpecPayloads == InitPayloads /\ [][NextPayloads]_vars

\* ------------------------------------------------------------ claims on payloads
\* the metadata object of the record b holds under id
Held(b, id) == heap[events[b][id].metadata]

\* a fraction of MemoryMetadata that is present and within [0, 1]
InUnit(meta, key) == key \in DOMAIN meta /\ meta[key] >= 0 /\ meta[key] <= DefaultConfidence

\* C21: every record a backend holds has its importance and its confidence
\* within [0, 1] after any sequence of store, update and consolidate calls,
\* whatever the caller put in store's metadata overrides or in update.
C21_FractionsStayInUnit ==
    \A b \in Backends : \A id \in DOMAIN events[b] :
        InUnit(Held(b, id), "importance") /\ InUnit(Held(b, id), "confidence")

\* C22: the accessCount of a record never decreases while a backend holds it:
\* across every store, retrieve, update and consolidate step, a record held
\* before and after the step has an accessCount at least as large as before.
C22_AccessCountNeverDecreases ==
    [][ \A b \in Backends : \A id \in (DOMAIN events[b]) \cap (DOMAIN events'[b]) :
            LET old == heap[events[b][id].metadata]
                new == heap'[events'[b][id].metadata]
            IN  ("accessCount" \in DOMAIN old /\ old.accessCount # NaN)
                => /\ "accessCount" \in DOMAIN new
                   /\ new.accessCount >= old.accessCount ]_vars

\* C23: a record's id and memoryType are immutable: the record held under key k
\* has id k, and across every store, update, retrieve and consolidate step a
\* record held before and after keeps its memoryType.
C23_IdAndTypeAreImmutable ==
    [][ \A b \in Backends : \A k \in DOMAIN events'[b] :
            /\ events'[b][k].id = k
            /\ k \in DOMAIN events[b]
               => events'[b][k].memoryType = events[b][k].memoryType ]_vars

\* ------------------------------------------------------------ claims on the backend's lifecycle
AlreadyInitialized == StorageError("Backend already initialized")

BackendNotInitialized == StorageError("Backend not initialized")

\* C24: backend.initialize() succeeds on an uninitialized backend, and on every
\* call made while the backend is initialized it fails with the
\* already-initialized error and leaves the records and the flag as they were.
C24_InitializeRefusesTwice ==
    [][ last'.op = "backend.initialize"
        => LET b == last'.backend
           IN  IF backendInitialized[b]
               THEN /\ last'.outcome = "error"
                    /\ last'.error = AlreadyInitialized
                    /\ UNCHANGED <<events, heap, backendInitialized>>
               ELSE /\ last'.outcome = "ok"
                    /\ backendInitialized'[b]
                    /\ UNCHANGED <<events, heap>> ]_vars

\* initialize was refused by a backend that holds a record
C24_Witness ==
    /\ last.op = "backend.initialize"
    /\ last.outcome = "error"
    /\ last.error = AlreadyInitialized
    /\ backendInitialized[last.backend]
    /\ events[last.backend] # <<>>

BackendRecordOps ==
    {"backend.store", "backend.retrieve", "backend.update", "backend.delete",
     "backend.consolidate"}

\* C25: after backend.close() the backend holds no records and is
\* uninitialized; while it is uninitialized store, retrieve, update, delete and
\* consolidate fail with the not-initialized error and change nothing, and the
\* backend stays empty; initialize() then succeeds on the empty backend, and a
\* store on the initialized backend is accepted.
C25_ClosedBackendRefuses ==
    [][ LET b == last'.backend
        IN  /\ last'.op = "backend.close"
               => events'[b] = <<>> /\ ~backendInitialized'[b]
            /\ (last'.op \in BackendRecordOps /\ ~backendInitialized[b])
               => /\ last'.outcome = "error"
                  /\ last'.error = BackendNotInitialized
                  /\ UNCHANGED <<events, heap, backendInitialized, deletedFrom>>
            /\ \A c \in Backends : ~backendInitialized'[c] => events'[c] = <<>>
            /\ (last'.op = "backend.initialize" /\ ~backendInitialized[b])
               => /\ last'.outcome = "ok"
                  /\ backendInitialized'[b]
                  /\ events'[b] = <<>>
            /\ (last'.op = "backend.store" /\ backendInitialized[b])
               => /\ last'.outcome = "ok"
                  /\ DOMAIN events'[b] = (DOMAIN events[b]) \cup {last'.memoryId} ]_vars

\* a retrieve is refused by a backend that had been initialized and used, and
\* has been closed since
C25_Witness ==
    /\ last.op = "backend.retrieve"
    /\ last.outcome = "error"
    /\ last.error = BackendNotInitialized
    /\ deletedFrom[last.backend] # {}
    /\ events[last.backend] = <<>>
    /\ ~backendInitialized[last.backend]

\* ------------------------------------------------------------ claims on the lifecycle
\* the positions in the calls of a shutdown at which it made the call op
CallsAt(call, op) == {i \in 1..Len(call.calls) : call.calls[i].op = op}

\* the sessions a call notified as closed, in the order of the notifications
ClosedBy(call) ==
    LET at == SeqOfIds({i \in 1..Len(call.emitted) : call.emitted[i].name = "sessionClosed"})
    IN  [k \in 1..Len(at) |-> call.emitted[at[k]].arg]

ProtocolAlreadyInitialized ==
    MemoryProtocolError("Protocol already initialized", CodeBadRequest)

C29_AbsentIdIsNotFound ==
    [][ LET b == last'.backend
            id == last'.memoryId
        IN  /\ (/\ last'.op \in {"backend.update", "backend.delete"}
                /\ backendInitialized[b]
                /\ id \notin DOMAIN events[b])
               => /\ last'.outcome = "error"
                  /\ last'.error.code = CodeNotFound
                  /\ UNCHANGED <<events, heap>>
            /\ (/\ last'.op = "backend.delete"
                /\ backendInitialized[b]
                /\ id \in DOMAIN events[b])
               => /\ last'.outcome = "ok"
                  /\ DOMAIN events'[b] = (DOMAIN events[b]) \ {id}
                  /\ \A k \in DOMAIN events'[b] :
                         /\ events'[b][k] = events[b][k]
                         /\ heap'[events'[b][k].metadata] = heap[events[b][k].metadata] ]_vars

\* the threshold a scored search is to apply: the query's when it supplies one,
\* the engine's fallback otherwise
ThresholdOf(query) ==
    IF "threshold" \in DOMAIN query THEN query.threshold ELSE FallbackThreshold

\* C30: a scored search keeps a candidate exactly when its score is at least
\* the query's threshold, for every supplied threshold, 0 included (which keeps
\* every candidate, those of score 0 too); the engine's fallback 0.5 applies
\* only when the query supplies no threshold.
C30_ThresholdIsApplied ==
    (/\ last.op = "backend.retrieve"
     /\ last.outcome = "ok"
     /\ "query" \in DOMAIN last.query)
    => last.result.totalCount =
           Cardinality({k \in DOMAIN events[last.backend] :
                           ScoreOf(events[last.backend][k], ToLowerCase(last.query.query))
                               >= ThresholdOf(last.query)})

\* ------------------------------------------------------------ protocol messages
KnownMethods ==
    {"memory/store", "memory/retrieve", "memory/update", "memory/delete",
     "session/create", "session/close"}

Undefined == "undefined"

\* what destructuring `message.params` throws when the message has none
TypeError == [name |-> "TypeError", message |-> "Cannot destructure"]

Param(params, key) == IF key \in DOMAIN params THEN params[key] ELSE Undefined

\* an optional object parameter, spread or optionally chained by the callee
ObjectParam(params, key) == IF key \in DOMAIN params THEN params[key] ELSE <<>>

\* the switch of handleMessage with the handler each case calls; what the
\* handler returns or throws is left in `last`
HandleMessage(message) ==
    LET call == Call("handleMessage", 0, 0)
        given == "params" \in DOMAIN message
        params == IF given THEN message.params ELSE <<>>
    IN  IF message.method \notin KnownMethods
        THEN Reject(call, MemoryProtocolError("Unknown method", CodeBadRequest))
        ELSE IF message.method = "session/create"
        THEN CreateSession(Param(params, "userId"), Param(params, "agentId"))
        ELSE IF ~given
        THEN Reject(call, TypeError)
        ELSE CASE message.method = "memory/store" ->
                      Store(params.content, params.type, params.sessionId,
                            ObjectParam(params, "metadata"))
               [] message.method = "memory/retrieve" ->
                      Retrieve(params.query, params.sessionId,
                               ObjectParam(params, "options"))
               [] message.method = "memory/update" ->
                      Update(params.memoryId, params.updates, params.sessionId)
               [] message.method = "memory/delete" ->
                      Delete(params.memoryId, params.sessionId)
               [] message.method = "session/close" ->
                      CloseSession(params.sessionId)

\* the `result` each handler puts in its response
ResultOf(method, call) ==
    CASE method = "memory/store" -> [memoryId |-> call.returned]
      [] method = "memory/retrieve" -> call.result
      [] method = "session/create" -> [sessionId |-> call.returned]
      [] OTHER -> [success |-> TRUE]

\* a response whose error leaves out the data
ResponseDropsData(message, call) ==
    IF call.outcome = "ok"
    THEN [jsonrpc |-> "2.0", id |-> message.id,
          result |-> ResultOf(message.method, call)]
    ELSE [jsonrpc |-> "2.0", id |-> message.id,
          error |-> [code |-> OrDefault(call.error, "code", CodeStorage),
                     message |-> call.error.message]]

\* the message handleMessage returns: the handler's response, or the catch
\* block's when the handler threw
Response(message, call) ==
    IF call.outcome = "ok"
    THEN [jsonrpc |-> "2.0", id |-> message.id,
          result |-> ResultOf(message.method, call)]
    ELSE [jsonrpc |-> "2.0", id |-> message.id,
          error |-> [code |-> OrDefault(call.error, "code", CodeStorage),
                     message |-> call.error.message,
                     data |-> Param(call.error, "data")]]

Messages ==
    { [jsonrpc |-> "2.0", id |-> 1, method |-> "session/create",
       params |-> [userId |-> "user123", agentId |-> "agent456"]],
      [jsonrpc |-> "2.0", id |-> 2, method |-> "session/create"],
      [jsonrpc |-> "2.0", id |-> 3, method |-> "memory/store",
       params |-> [content |-> TextTea, type |-> "working", sessionId |-> 1]],
      [jsonrpc |-> "2.0", id |-> 4, method |-> "memory/retrieve",
       params |-> [query |-> QueryProgramming, sessionId |-> 1]],
      [jsonrpc |-> "2.0", id |-> 5, method |-> "memory/update",
       params |-> [memoryId |-> 1, updates |-> [metadata |-> [importance |-> 9]],
                   sessionId |-> 1]],
      [jsonrpc |-> "2.0", id |-> 6, method |-> "memory/delete",
       params |-> [memoryId |-> 1, sessionId |-> 1]],
      [jsonrpc |-> "2.0", id |-> 7, method |-> "memory/delete"],
      [jsonrpc |-> "2.0", id |-> 8, method |-> "session/close",
       params |-> [sessionId |-> 1]],
      [jsonrpc |-> "2.0", id |-> 9, method |-> "memory/forget",
       params |-> [memoryId |-> 1, sessionId |-> 1]] }

NextMessages ==
    \/ \E b \in Backends : RegisterBackend(b)
    \/ \E b \in Backends : BackendInitialize(b)
    \/ Initialize
    \/ \E message \in Messages : HandleMessage(message)

InitMessages == Constructed([backends |-> 1, sessions |-> MaxSessions, records |-> MaxRecords])

\* The protocol driven through handleMessage only.
SpecMessages == InitMessages /\ [][NextMessages]_vars

\* ------------------------------------------------------------ claims on messages
OpOf(method) ==
    CASE method = "memory/store" -> "store"
      [] method = "memory/retrieve" -> "retrieve"
      [] method = "memory/update" -> "update"
      [] method = "memory/delete" -> "delete"
      [] method = "session/create" -> "createSession"
      [] method = "session/close" -> "closeSession"

\* the message names a session that is not open
UnknownSession(message) ==
    /\ message.method \in KnownMethods \ {"session/create"}
    /\ "params" \in DOMAIN message
    /\ message.params.sessionId \notin DOMAIN sessions

\* the operation the message asks for reaches a registered backend that refuses it
BackendRefuses(message) ==
    /\ message.method \in {"memory/store", "memory/update", "memory/delete"}
    /\ "params" \in DOMAIN message
    /\ initialized
    /\ message.params.sessionId \in DOMAIN sessions
    /\ \E b \in Registered :
           \/ ~backendInitialized[b]
           \/ /\ message.method # "memory/store"
              /\ message.params.memoryId \notin DOMAIN events[b]

\* a JSON-RPC 2.0 response to the request, with a result or else an error triple
WellFormed(message, response) ==
    /\ response.jsonrpc = "2.0"
    /\ response.id = message.id
    /\ ("result" \in DOMAIN response) # ("error" \in DOMAIN response)
    /\ "error" \in DOMAIN response
       => /\ DOMAIN response.error = {"code", "message", "data"}
          /\ response.error.code \in Nat \ {0}

\* what the claim says of every message but the code of an unknown session
Answered(message, response) ==
    /\ WellFormed(message, response)
    /\ (message.method \in KnownMethods
        /\ ("params" \in DOMAIN message \/ message.method = "session/create"))
       => last'.op = OpOf(message.method)
    /\ message.method \notin KnownMethods
       => "error" \in DOMAIN response /\ response.error.code = CodeBadRequest
    /\ BackendRefuses(message)
       => "error" \in DOMAIN response /\ response.error.code = CodeStorage

\* C27 as claimed: handleMessage answers every request with a JSON-RPC 2.0
\* response carrying the request's id and exactly one of result or error; the
\* six known methods dispatch to their operations, an unknown method yields
\* code 400, an unknown session code 404, a backend failure code 500, and every
\* error is the triple {code, message, data}.
C27_UnknownSessionAlways404 ==
    [][ \A message \in Messages :
            HandleMessage(message)
            => LET response == Response(message, last')
               IN  /\ Answered(message, response)
                   /\ UnknownSession(message)
                      => /\ "error" \in DOMAIN response
                         /\ response.error.code = CodeNotFound ]_vars

\* C27, amended: as claimed, except that a memory/* request naming an unknown
\* session yields code 404 only while the protocol is initialized, and code 400
\* (not initialized) before initialize; session/close yields 404 in every state.
C27_HandleMessageAnswers ==
    [][ \A message \in Messages :
            HandleMessage(message)
            => LET response == Response(message, last')
               IN  /\ Answered(message, response)
                   /\ UnknownSession(message)
                      => /\ "error" \in DOMAIN response
                         /\ response.error.code =
                                IF initialized \/ message.method = "session/close"
                                THEN CodeNotFound ELSE CodeBadRequest ]_vars

\* a memory/update request has been answered with the error of a backend that
\* does not hold the record
C27_Witness ==
    /\ last.op = "update"
    /\ last.outcome = "error"
    /\ initialized
    /\ last.sessionId \in DOMAIN sessions
    /\ \E message \in Messages :
           /\ message.method = "memory/update"
           /\ Response(message, last).id = message.id
           /\ Response(message, last).error.code = CodeStorage

\* ------------------------------------------------------------ searching a backend
MaxFound == 1

MaxTime == 1

\* "Green teas"
TextGreenTeas == <<71, 114, 101, 101, 110, 32, 116, 101, 97, 115>>
\* "tea"
QueryTea == <<116, 101, 97>>
\* "xyz"
QueryXyz == <<120, 121, 122>>

\* time passes between two calls
Tick ==
    /\ clock < MaxTime
    /\ clock' = clock + 1
    /\ UNCHANGED <<initialized, sessions, nextSession, storageBackends,
                   backendInitialized, events, heap, nextId, deletedFrom, last, pool, pending, transport>>

\* protocol.store's arguments: a text matched by "tea" in its text, in a keyword
\* and in a tag; a text matched in its text only; the same with another
\* importance and tier
SearchStoreInputs ==
    { [content |-> TextGreenTeas, type |-> "semantic", sessionId |-> 1,
       metadata |-> [importance |-> 8, tags |-> <<TagTea>>]],
      [content |-> TextTea, type |-> "working", sessionId |-> 1, metadata |-> <<>>],
      [content |-> TextTea, type |-> "episodic", sessionId |-> 1,
       metadata |-> [importance |-> 9, storageTier |-> "vector_store"]] }

SearchQueries ==
    { [query |-> QueryTea],
      [query |-> QueryTea, threshold |-> TextScore + 1],
      [query |-> QueryXyz, id |-> 1, threshold |-> TextScore + 1],
      [query |-> QueryTea, memoryTypes |-> <<"working", "episodic">>],
      [query |-> QueryTea, memoryTypes |-> <<>>],
      [query |-> QueryTea, storageTiers |-> <<"vector_store">>],
      [query |-> QueryTea, timeRange |-> [start |-> MaxTime]],
      [query |-> QueryTea, timeRange |-> [start |-> 0, end |-> 0]],
      [query |-> QueryTea, filters |-> [source |-> "user", importance |-> DefaultImportance]] }

NextSearch ==
    \/ \E b \in Backends : BackendInitialize(b)
    \/ \E b \in Backends, i \in SearchStoreInputs :
           BackendStoreCall(b, i.content, i.type, i.sessionId, i.metadata)
    \/ \E b \in Backends, q \in SearchQueries : BackendRetrieveCall(b, q)
    \/ Tick

InitSearch == Constructed([backends |-> 1, sessions |-> 1, records |-> MaxFound])

\* One InMemoryBackend object searched while time passes.
SpecSearch == InitSearch /\ [][NextSearch]_vars

\* ------------------------------------------------------------ sorting a backend's results
MaxSorted == 2

SortQueries == { [query |-> QueryTea] }

NextSort ==
    \/ \E b \in Backends : BackendInitialize(b)
    \/ \E b \in Backends, i \in SearchStoreInputs :
           BackendStoreCall(b, i.content, i.type, i.sessionId, i.metadata)
    \/ \E b \in Backends, q \in SortQueries : BackendRetrieveCall(b, q)
    \/ Tick

InitSort == Constructed([backends |-> 1, sessions |-> 1, records |-> MaxSorted])

\* One InMemoryBackend object returning several records in order.
SpecSort == InitSort /\ [][NextSort]_vars

\* ------------------------------------------------------------ claims on searching
\* the strings of a list whose lower-cased form contains the lower-cased query
Containing(strings, query) ==
    {i \in 1..Len(strings) : Includes(ToLowerCase(strings[i]), ToLowerCase(query))}

\* the score the claim gives a record for a query, in tenths
ClaimedScore(event, query) ==
    (IF Includes(ToLowerCase(event.content.text), ToLowerCase(query)) THEN 8 ELSE 0)
    + 6 * Cardinality(Containing(event.content.keywords, query))
    + 7 * Cardinality(Containing(event.content.tags, query))

Unfiltered(query) == DOMAIN query \subseteq {"query", "id", "threshold"}

\* C31: for a query without id each returned record carries the score 0.8 for
\* the text, plus 0.6 for each keyword and 0.7 for each tag, that contains the
\* lower-cased query; the score is not capped at 1, and it is this score that is
\* held against the threshold; a lookup by id returns the record under that
\* id without a score, whatever the query text and the threshold.
C31_ScoreIsSumOfMatches ==
    (last.op = "backend.retrieve" /\ last.outcome = "ok")
    => LET b == last.backend
           query == last.query
           memories == last.result.memories
       IN  IF "id" \in DOMAIN query
           THEN /\ \A i \in 1..Len(memories) :
                       /\ "_score" \notin DOMAIN memories[i]
                       /\ memories[i].id = query.id
                /\ Unfiltered(query)
                   => Len(memories) = IF query.id \in DOMAIN events[b] THEN 1 ELSE 0
           ELSE /\ \A i \in 1..Len(memories) :
                       memories[i]._score =
                           ClaimedScore(events[b][memories[i].id], query.query)
                /\ Unfiltered(query)
                   => {memories[i].id : i \in 1..Len(memories)} =
                          {k \in DOMAIN events[b] :
                              ClaimedScore(events[b][k], query.query) >= ThresholdOf(query)}

\* a returned record matched in its text, in a keyword and in a tag has the
\* score 2.1
C31_Witness ==
    /\ last.op = "backend.retrieve"
    /\ last.outcome = "ok"
    /\ "id" \notin DOMAIN last.query
    /\ \E i \in 1..Len(last.result.memories) :
           /\ last.result.memories[i].content.text = TextGreenTeas
           /\ last.result.memories[i]._score = TextScore + KeywordScore + TagScore

\* the candidates of a retrieve: the record under the id, or the records whose
\* score reaches the threshold
Candidates(b, query) ==
    IF "id" \in DOMAIN query
    THEN {query.id} \cap DOMAIN events[b]
    ELSE {k \in DOMAIN events[b] :
             ClaimedScore(events[b][k], query.query) >= ThresholdOf(query)}

\* the record satisfies the filters of the query; a memoryTypes or storageTiers
\* list counts as supplied when it is present (asGiven) or present and not empty
Satisfies(b, k, query, asGiven) ==
    LET event == events[b][k]
        meta == Held(b, k)
        listed(key) == key \in DOMAIN query /\ (asGiven \/ Len(query[key]) > 0)
    IN  /\ listed("memoryTypes")
           => \E i \in 1..Len(query.memoryTypes) : query.memoryTypes[i] = event.memoryType
        /\ listed("storageTiers")
           => \E i \in 1..Len(query.storageTiers) :
                  query.storageTiers[i] = meta.storageTier
        /\ "timeRange" \in DOMAIN query
           => /\ "start" \in DOMAIN query.timeRange
                 => event.timestamp >= query.timeRange.start
              /\ "end" \in DOMAIN query.timeRange
                 => event.timestamp <= query.timeRange.end
        /\ "filters" \in DOMAIN query
           => \A key \in DOMAIN query.filters :
                  key \in DOMAIN meta /\ meta[key] = query.filters[key]

\* the page and the count of a retrieve are those of the candidates that
\* satisfy the filters
Filtered(asGiven) ==
    (last.op = "backend.retrieve" /\ last.outcome = "ok")
    => LET b == last.backend
           kept == {k \in Candidates(b, last.query) : Satisfies(b, k, last.query, asGiven)}
       IN  /\ PageIds(last) = kept
           /\ last.result.totalCount = Cardinality(kept)

\* C32 as claimed: retrieve keeps exactly the candidates that satisfy every
\* supplied filter: memoryType in memoryTypes, storageTier in storageTiers,
\* timestamp within timeRange (bounds inclusive, each optional), metadata[key]
\* equal to value for every pair of filters; a record failing one is in
\* neither the page nor totalCount.
C32_EverySuppliedFilterApplies == Filtered(TRUE)

\* C32, amended: as claimed, where a memoryTypes or storageTiers list that is
\* supplied empty filters nothing.
C32_EveryNonEmptyFilterApplies == Filtered(FALSE)

\* a record that reaches the threshold is kept out of the page and of
\* totalCount by the memoryTypes of the query
C32_Witness ==
    /\ last.op = "backend.retrieve"
    /\ last.outcome = "ok"
    /\ "memoryTypes" \in DOMAIN last.query
    /\ Len(last.query.memoryTypes) > 0
    /\ Candidates(last.backend, last.query) # {}
    /\ last.result.totalCount = 0
    /\ last.result.memories = <<>>

\* ------------------------------------------------------------ claims on sorting
\* a is not smaller than b by score, then importance, then timestamp
NotSmaller(a, b) ==
    LET importanceA == heap[a.metadata].importance
        importanceB == heap[b.metadata].importance
    IN  \/ a._score > b._score
        \/ /\ a._score = b._score
           /\ \/ importanceA > importanceB
              \/ /\ importanceA = importanceB
                 /\ a.timestamp >= b.timestamp

\* C33: the records a scored retrieve returns are ordered by score descending,
\* ties by metadata.importance descending, remaining ties by timestamp
\* descending: of two adjacent returned records the earlier is not smaller
\* than the later in this lexicographic order.
C33_ResultsAreSorted ==
    (last.op = "backend.retrieve" /\ last.outcome = "ok" /\ "id" \notin DOMAIN last.query)
    => \A i \in 1..(Len(last.result.memories) - 1) :
           NotSmaller(last.result.memories[i], last.result.memories[i + 1])

\* two returned records tie on score and importance and the more recent one
\* comes first, although it was stored later
C33_Witness ==
    /\ last.op = "backend.retrieve"
    /\ last.outcome = "ok"
    /\ Len(last.result.memories) = MaxSorted
    /\ LET first == last.result.memories[1]
           second == last.result.memories[2]
       IN  /\ first._score = second._score
           /\ heap[first.metadata].importance = heap[second.metadata].importance
           /\ first.timestamp > second.timestamp
           /\ first.id > second.id

\* ------------------------------------------------------------ overlapping calls
\* update and delete calls the caller has begun and not awaited
MaxPending == 2

\* `async update(...)` up to its loop, over backends whose calls suspend: the
\* checks run when the call is made, each `await backend.update(...)` takes
\* effect in a later step (Proceed)
Begin(op, memoryId, updates, sessionId) ==
    LET call == Call(op, sessionId, memoryId)
    IN  /\ Len(pending) < MaxPending
        /\ IF ~initialized THEN Reject(call, NotInitialized)
           ELSE IF sessionId \notin DOMAIN sessions THEN Reject(call, SessionNotFound)
           ELSE LET none == storageBackends = <<>>
                    name == IF op = "update" THEN "memoryUpdated" ELSE "memoryDeleted"
                IN  /\ pending' = Append(pending,
                            [op |-> op, memoryId |-> memoryId, updates |-> updates,
                             sessionId |-> sessionId, at |-> 1,
                             status |-> IF none THEN "done" ELSE "running",
                             agreed |-> \A b \in 1..Len(storageBackends) :
                                            /\ backendInitialized[storageBackends[b]]
                                            /\ memoryId \in DOMAIN events[storageBackends[b]]
                                            /\ events[storageBackends[b]][memoryId]
                                                   = events[storageBackends[1]][memoryId]])
                    /\ last' = IF none
                               THEN [call EXCEPT !.emitted = <<Emit(name, memoryId)>>]
                               ELSE [call EXCEPT !.outcome = "pending"]
                    /\ UNCHANGED <<initialized, sessions, nextSession, storageBackends,
                                   backendInitialized, events, heap, nextId, clock,
                                   deletedFrom, pool, transport>>

BeginUpdate(memoryId, updates, sessionId) == Begin("update", memoryId, updates, sessionId)

BeginDelete(memoryId, sessionId) == Begin("delete", memoryId, <<>>, sessionId)

\* one `await backend.update(memoryId, updates)` or `await backend.delete(memoryId)`
\* of the i-th call takes effect; after the last backend the call emits and
\* returns, after a failure it throws
Proceed(i) ==
    /\ i \in 1..Len(pending)
    /\ pending[i].status = "running"
    /\ LET p == pending[i]
           call == Call(p.op, p.sessionId, p.memoryId)
           backend == storageBackends[p.at]
           name == IF p.op = "update" THEN "memoryUpdated" ELSE "memoryDeleted"
           r == IF p.op = "update"
                THEN BackendUpdate(Stores, backend, p.memoryId, p.updates)
                ELSE BackendDelete(Stores, backend, p.memoryId)
           finished == p.at = Len(storageBackends)
       IN  /\ Commit(r.st)
           /\ pending' = [pending EXCEPT
                             ![i].at = @ + 1,
                             ![i].status = IF ~r.ok THEN "failed"
                                           ELSE IF finished THEN "done" ELSE "running"]
           /\ last' = IF ~r.ok THEN Throw(call, r.error)
                      ELSE IF finished THEN [call EXCEPT !.emitted = <<Emit(name, p.memoryId)>>]
                      ELSE last
    /\ UNCHANGED <<initialized, sessions, nextSession, storageBackends,
                   backendInitialized, nextId, clock, pool, transport>>

\* two updates that write the same field
RaceUpdateInputs == { [content |-> [text |-> TextAa]], [content |-> [text |-> TextBB]] }

RaceStoreInputs == { [content |-> TextTea, type |-> "working", metadata |-> <<>>] }

\* the embedding program sets the backends up and stores before it begins calls
NextRace ==
    \/ pending = <<>> /\ Initialize
    \/ pending = <<>> /\ \E u \in UserIds, a \in AgentIds : CreateSession(u, a)
    \/ pending = <<>> /\ \E b \in Backends : RegisterBackend(b)
    \/ pending = <<>> /\ \E b \in Backends : BackendInitialize(b)
    \/ pending = <<>> /\ \E i \in RaceStoreInputs, s \in SessionIds :
                             Store(i.content, i.type, s, i.metadata)
    \/ \E id \in EventIds, u \in RaceUpdateInputs, s \in SessionIds : BeginUpdate(id, u, s)
    \/ \E id \in EventIds, s \in SessionIds : BeginDelete(id, s)
    \/ \E i \in 1..MaxPending : Proceed(i)

InitRace == Constructed([backends |-> 2, sessions |-> 1, records |-> 1])

\* Two backends behind the dispatcher, with up to MaxPending overlapping calls.
SpecRace == InitRace /\ [][NextRace]_vars

\* ------------------------------------------------------------ claims on overlapping calls
Quiescent == \A i \in 1..Len(pending) : pending[i].status # "running"

\* the registered backends hold the same thing under id
Agree(id) ==
    \A a \in Registered, b \in Registered :
        /\ (id \in DOMAIN events[a]) = (id \in DOMAIN events[b])
        /\ id \in DOMAIN events[a] /\ id \in DOMAIN events[b] => events[a][id] = events[b][id]

\* the calls on id began with every backend initialized and holding the same event
RaceOn(id) ==
    /\ pending # <<>>
    /\ Len(storageBackends) = 2
    /\ \A i \in 1..Len(pending) : pending[i].memoryId = id
    /\ pending[1].agreed

Succeeded(op) == {i \in 1..Len(pending) : pending[i].op = op /\ pending[i].status = "done"}

StoredTo(call, n) ==
    /\ call.op = "store"
    /\ call.outcome = "ok"
    /\ Len(storageBackends) = n

\* C35: when protocol.store writes one new record to N >= 1 initialized
\* backends, the copies of all N backends refer to one metadata object, and
\* that object ends with accessCount equal to the accessCount store gave it
\* (0) plus N and with the lastAccessed of the last backend's store.
C35_StoreCountsEveryBackend ==
    [][\A n \in 1..NumBackends :
          StoredTo(last', n) =>
              LET id == last'.returned
                  first == events'[storageBackends[1]][id].metadata
              IN  /\ \A b \in Registered :
                         /\ id \in DOMAIN events'[b]
                         /\ events'[b][id].metadata = first
                  /\ heap'[first].accessCount = 0 + n
                  /\ heap'[first].lastAccessed = clock]_vars

\* a record has just been stored in two backends and its accessCount is 2
C35_Witness ==
    /\ StoredTo(last, 2)
    /\ \A b \in Registered : heap[events[b][last.returned].metadata].accessCount = 2

\* ------------------------------------------------------------ claims on notifications
\* the notification of a record operation
NotificationOf == [store |-> "memoryStored", update |-> "memoryUpdated",
                   delete |-> "memoryDeleted"]

\* what every backend shows once all backend calls of a successful call are done
Reached(call, ev, gone) ==
    \A b \in Registered :
        IF call.op = "delete"
        THEN call.memoryId \notin DOMAIN ev[b] /\ call.memoryId \in gone[b]
        ELSE call.memoryId \in DOMAIN ev[b]

Named(call, name) == {call.emitted[i].arg : i \in {j \in 1..Len(call.emitted) :
                                                      call.emitted[j].name = name}}

\* C36: a store, update or delete that succeeds emits its notification exactly
\* once and nothing else, with every backend call of the operation done; a
\* store, update, delete or closeSession that fails emits nothing; a
\* sessionCreated names a session that is in the table and a sessionClosed a
\* session that is no longer in it.
C36_NotificationsFollowSuccess ==
    [][/\ last'.op \in DOMAIN NotificationOf /\ last'.outcome = "ok" =>
              /\ last'.emitted = <<Emit(NotificationOf[last'.op], last'.memoryId)>>
              /\ Reached(last', events', deletedFrom')
       /\ last'.op \in DOMAIN NotificationOf \cup {"closeSession"}
              /\ last'.outcome = "error" => last'.emitted = <<>>
       /\ Named(last', "sessionCreated") \subseteq DOMAIN sessions'
       /\ Named(last', "sessionClosed") \cap DOMAIN sessions' = {}
       /\ last'.op = "createSession" =>
              last'.emitted = <<Emit("sessionCreated", last'.returned)>>
       /\ last'.op = "closeSession" /\ last'.outcome = "ok" =>
              last'.emitted = <<Emit("sessionClosed", last'.sessionId)>>]_vars

\* an update has failed at the second backend after the first applied it, and
\* nothing was emitted
C36_Witness ==
    /\ last.op = "update"
    /\ last.outcome = "error"
    /\ last.emitted = <<>>
    /\ Len(storageBackends) = 2
    /\ last.memoryId \in DOMAIN events[storageBackends[1]]
    /\ heap[events[storageBackends[1]][last.memoryId].metadata].updated = clock
    /\ last.memoryId \notin DOMAIN events[storageBackends[2]]

\* ------------------------------------------------------------ WebSocketTransport: steps
\* WebSocket objects connect() may create (specification SpecTransport), and
\* the maxReconnectAttempts option the transport is constructed with
MaxSockets == 5
MaxReconnect == 2
\* the same for the transport whose caller sends (specification SpecQueue), and
\* the messages the caller passes to send
QueueSockets == 2
MaxMessages == 2

ProtocolIdle ==
    UNCHANGED <<initialized, sessions, nextSession, storageBackends, backendInitialized,
                events, heap, nextId, clock, deletedFrom, pool, pending>>

Sockets == 1..Len(transport.sockets)

\* `new WebSocket(this.url)` inside the promise connect() returns; awaited says
\* who holds that promise: the caller, or the catch of attemptReconnection
NewSocket(t, awaited) ==
    [t EXCEPT !.sockets = Append(@, [readyState |-> "CONNECTING", awaited |-> awaited,
                                     closer |-> FALSE, doomed |-> FALSE]),
              !.ws = Len(t.sockets) + 1]

attemptReconnection(t) ==
    [t EXCEPT !.reconnectAttempts = @ + 1, !.timers = @ + 1]

\* `this.ws.send(serialized)` as the ws package does it: an OPEN socket takes
\* the message, a CONNECTING one throws, a CLOSING or CLOSED one drops it
Transmit(t, message) ==
    IF t.ws # 0 /\ t.sockets[t.ws].readyState = "OPEN"
    THEN [t EXCEPT !.sent = Append(@, [socket |-> t.ws, message |-> message])]
    ELSE t

RECURSIVE flushMessageQueue(_)
flushMessageQueue(t) ==
    IF t.messageQueue # <<>> /\ t.connected
    THEN flushMessageQueue(
             Transmit([t EXCEPT !.messageQueue = Tail(@)], Head(t.messageQueue)))
    ELSE t

\* the 'open' handler
OnOpen(t) ==
    flushMessageQueue([t EXCEPT !.connected = TRUE, !.reconnectAttempts = 0,
                                !.started = 0])

\* the 'close' handler of connect(), then the 'close' listener of disconnect()
\* if disconnect() put one on this socket (several do what one does)
OnClose(t, s, code) ==
    LET closed == [t EXCEPT !.connected = FALSE]
        retried == IF code # CloseNormal
                      /\ closed.reconnectAttempts < closed.maxReconnectAttempts
                   THEN attemptReconnection(closed) ELSE closed
    IN  IF t.sockets[s].closer
        THEN [retried EXCEPT !.connected = FALSE, !.messageQueue = <<>>, !.ws = 0,
                             !.idle = TRUE]
        ELSE retried

\* the catch attemptReconnection puts on the promise of its connect()
OnReject(t, s) ==
    IF t.sockets[s].awaited = "timer"
       /\ t.reconnectAttempts < t.maxReconnectAttempts
    THEN attemptReconnection(t) ELSE t

Connect ==
    /\ IF transport.connected
       THEN transport' = [transport EXCEPT !.idle = FALSE, !.happened = "connect"]
       ELSE /\ Len(transport.sockets) < pool.sockets
            /\ transport' = [NewSocket(transport, "caller") EXCEPT
                                !.idle = FALSE, !.happened = "connect"]
    /\ last' = Call("connect", 0, 0)
    /\ ProtocolIdle

\* the callback attemptReconnection gave to setTimeout
TimerFires ==
    /\ transport.timers > 0
    /\ LET t == [transport EXCEPT !.timers = @ - 1, !.happened = "timer"]
       IN  IF t.connected
           THEN transport' = t
           ELSE /\ Len(t.sockets) < pool.sockets
                /\ transport' = [NewSocket(t, "timer") EXCEPT !.started = @ + 1]
    /\ UNCHANGED last
    /\ ProtocolIdle

\* the socket s has connected
SocketOpen(s) ==
    /\ s \in Sockets
    /\ transport.sockets[s].readyState = "CONNECTING"
    /\ ~transport.sockets[s].doomed
    /\ transport' = OnOpen([transport EXCEPT !.sockets[s].readyState = "OPEN",
                                             !.happened = "open"])
    /\ UNCHANGED last
    /\ ProtocolIdle

\* the connection attempt of socket s has failed: the ws package raises 'error'
\* and then 'close' with 1006
SocketFail(s) ==
    /\ s \in Sockets
    /\ transport.sockets[s].readyState = "CONNECTING"
    /\ transport' = OnReject(OnClose([transport EXCEPT !.sockets[s].readyState = "CLOSED",
                                                       !.happened = "fail"],
                                     s, CloseAbnormal), s)
    /\ UNCHANGED last
    /\ ProtocolIdle

\* the connection of socket s has ended: the peer closed it (1000) or it broke
\* (1006), or the closing handshake close(1000) began has finished
SocketClose(s, code) ==
    /\ s \in Sockets
    /\ \/ transport.sockets[s].readyState = "OPEN"
       \/ transport.sockets[s].readyState = "CLOSING" /\ code = CloseNormal
    /\ transport' = OnClose([transport EXCEPT !.sockets[s].readyState = "CLOSED",
                                              !.happened = "close"], s, code)
    /\ UNCHANGED last
    /\ ProtocolIdle

\* disconnect() returns at once when not connected; otherwise it returns from
\* the 'close' listener it adds to the current socket
Disconnect ==
    /\ IF ~transport.connected \/ transport.ws = 0
       THEN transport' = [transport EXCEPT !.idle = TRUE, !.happened = "disconnect"]
       ELSE LET s == transport.ws
                state == transport.sockets[s].readyState
            IN  transport' =
                    [transport EXCEPT
                        !.sockets[s].closer = TRUE,
                        !.sockets[s].readyState = IF state = "OPEN" THEN "CLOSING" ELSE state,
                        !.sockets[s].doomed = state = "CONNECTING",
                        !.happened = "disconnect"]
    /\ last' = Call("disconnect", 0, 0)
    /\ ProtocolIdle

Send ==
    /\ transport.messages < MaxMessages
    /\ LET message == transport.messages + 1
           t == [transport EXCEPT !.messages = message, !.happened = "send"]
           call == Call("send", 0, message)
       IN  IF ~t.connected
           THEN /\ transport' = [t EXCEPT !.messageQueue = Append(@, message)]
                /\ last' = Throw(call, TransportError("Not connected - message queued"))
           ELSE IF t.ws = 0
           THEN /\ transport' = t
                /\ last' = Throw(call, TransportError("WebSocket not initialized"))
           ELSE IF t.sockets[t.ws].readyState = "CONNECTING"
           THEN /\ transport' = t
                /\ last' = Throw(call, TransportError("Failed to send message"))
           ELSE /\ transport' = Transmit(t, message)
                /\ last' = [call EXCEPT !.emitted = <<Emit("messageSent", message)>>]
    /\ ProtocolIdle

NextTransport ==
    \/ Connect
    \/ Disconnect
    \/ TimerFires
    \/ \E s \in Sockets : SocketOpen(s)
    \/ \E s \in Sockets : SocketFail(s)
    \/ \E s \in Sockets, code \in {CloseNormal, CloseAbnormal} : SocketClose(s, code)

NextQueue ==
    \/ NextTransport
    \/ Send

\* one transport constructed with `{ maxReconnectAttempts: attempts }`
Transports(sockets, attempts) ==
    [backends |-> 1, sessions |-> 1, records |-> 1, sockets |-> sockets,
     options |-> [maxReconnectAttempts |-> attempts]]

InitTransport == Constructed(Transports(MaxSockets, MaxReconnect))

InitQueue == Constructed(Transports(QueueSockets, MaxReconnect))

\* A WebSocketTransport with its sockets and reconnection timers.
SpecTransport == InitTransport /\ [][NextTransport]_vars

\* The same, with a caller that sends up to MaxMessages messages.
SpecQueue == InitQueue /\ [][NextQueue]_vars

\* ------------------------------------------------------------ claims on the transport
\* this step is the 'open' event of socket s
Opens(s) ==
    /\ s \in Sockets
    /\ transport.sockets[s].readyState = "CONNECTING"
    /\ transport'.sockets[s].readyState = "OPEN"

\* this step is a send call
Sends == transport'.messages = transport.messages + 1

OnSocket(s, queue) == [i \in 1..Len(queue) |-> [socket |-> s, message |-> queue[i]]]

\* C37: send while not connected appends the message to the queue and fails
\* with a TransportError; when a socket opens, the queued messages are put on
\* it in queue order, each once, directly after what was sent before, and the
\* queue is empty afterwards.
C37_QueueIsFlushedOnOpen ==
    [][/\ Sends /\ ~transport.connected =>
              /\ transport'.messageQueue
                     = Append(transport.messageQueue, transport'.messages)
              /\ transport'.sent = transport.sent
              /\ last'.outcome = "error"
              /\ last'.error.name = "TransportError"
       /\ \A s \in 1..pool.sockets :
              Opens(s) =>
                  /\ transport'.messageQueue = <<>>
                  /\ transport'.sent
                         = transport.sent \o OnSocket(s, transport.messageQueue)]_vars

\* this step is the 'close' event that ends the closing handshake of socket s
ClosesNormally(s) ==
    /\ s \in Sockets
    /\ transport.sockets[s].readyState = "CLOSING"
    /\ transport'.sockets[s].readyState = "CLOSED"

\* C38: once disconnect() has returned, and until connect() is called, the
\* transport is not connected; and the close that ends a closing handshake
\* (code 1000) schedules no reconnection.
C38_DisconnectedUntilConnect ==
    [][/\ transport'.idle => ~transport'.connected
       /\ \A s \in 1..pool.sockets :
              ClosesNormally(s) => /\ transport'.timers = transport.timers
                                   /\ transport'.reconnectAttempts
                                          = transport.reconnectAttempts]_vars

\* C39: reconnectAttempts stays between 0 and maxReconnectAttempts, an open
\* resets it to 0, and the reconnection attempts that created a socket since
\* the last open never number more than maxReconnectAttempts.
C39_ReconnectionIsBounded ==
    [][/\ transport'.reconnectAttempts \in 0..transport'.maxReconnectAttempts
       /\ \A s \in 1..pool.sockets : Opens(s) => transport'.reconnectAttempts = 0
       /\ transport'.started <= transport'.maxReconnectAttempts]_vars

\* ------------------------------------------------------------ several sessions, one record
\* session ids uuidv4() hands out (specification SpecOwners)
MaxOwners == 2

InitOwners == Constructed([backends |-> 1, sessions |-> MaxOwners, records |-> 1])

\* The dispatcher driven by MaxOwners caller sessions that share one record.
SpecOwners == InitOwners /\ [][Next]_vars

\* ------------------------------------------------------------ claims on the issuing session
\* what the dispatcher does with an update or a delete of memoryId once the
\* session has been found, computed without the session
Dispatched(op, memoryId, updates) ==
    LET ref == NewRef(heap)
        carried == "metadata" \in DOMAIN updates
        object == IF carried THEN [updates EXCEPT !.metadata = ref] ELSE updates
        st == IF carried
              THEN [Stores EXCEPT !.heap = (ref :> updates.metadata) @@ @]
              ELSE Stores
        r == IF op = "update"
             THEN UpdateLoop(st, storageBackends, memoryId, object)
             ELSE DeleteLoop(Stores, storageBackends, memoryId)
    IN  [ok |-> r.ok, error |-> r.error, st |-> Collect(r.st)]

\* the step gave the outcome and the backend state r
Gave(r) ==
    /\ events' = r.st.events
    /\ heap' = r.st.heap
    /\ (last'.outcome = "ok") = r.ok
    /\ last'.error = r.error

\* C40: what an update, a delete or a retrieve by an open session does is fixed
\* by the state and the arguments other than the session: whichever open
\* session issues it, the outcome and the resulting backend state are those
\* of the dispatch computed without the session.
C40_OpenSessionsAreInterchangeable ==
    [][initialized /\ last'.sessionId \in DOMAIN sessions =>
           /\ last'.op = "update" =>
                  \E u \in UpdateInputs : Gave(Dispatched("update", last'.memoryId, u))
           /\ last'.op = "delete" => Gave(Dispatched("delete", last'.memoryId, <<>>))
           /\ last'.op = "retrieve" =>
                  /\ last'.outcome = "ok"
                  /\ last'.result = searchMemories(last'.query)
                  /\ events' = events /\ heap' = heap]_vars

\* a session has just updated a record that another open session stored
C40_Witness ==
    /\ last.op = "update"
    /\ last.outcome = "ok"
    /\ last.sessionId \in DOMAIN sessions
    /\ \E b \in Registered :
           /\ last.memoryId \in DOMAIN events[b]
           /\ events[b][last.memoryId].context.sessionId # last.sessionId
           /\ events[b][last.memoryId].context.sessionId \in DOMAIN sessions
           /\ heap[events[b][last.memoryId].metadata].updated = clock
====
